---- MODULE Spec2Model ----
(***************************************************************************)
(* Model of the health-first-server provider availability engine:          *)
(* services/providerAvailabilityService.py over the in-memory store of     *)
(* models/provider_availability_store.py.                                  *)
(* The patient and provider account services (patientService.py,          *)
(* authService.py, tokenService.py) over their in-memory stores follow.    *)
(*                                                                         *)
(* Dates are day numbers within 2024 (0 = 2024-01-01), instants are        *)
(* minutes since 2024-01-01T00:00Z, time strings are sequences of          *)
(* one-character strings so that parsing, formatting and the               *)
(* lexicographic comparisons of the code are computed, not assumed.        *)
(***************************************************************************)
EXTENDS Integers, Sequences, FiniteSets, TLC

VARIABLES PROVIDER_AVAILABILITY, APPOINTMENT_SLOTS, response, uuid_counter,
          utcnow, args, ret, tasks, PATIENTS, PROVIDERS, issued_tokens

storeVars == <<PROVIDER_AVAILABILITY, APPOINTMENT_SLOTS, response, uuid_counter, utcnow>>
fnVars == <<args, ret>>
\* the create calls in flight on the event loop, each with its position
taskVars == <<tasks>>
\* the patient and provider account stores, and the refresh tokens that
\* logins and refreshes have handed to clients
accountVars == <<PATIENTS, PROVIDERS, issued_tokens>>
vars == <<PROVIDER_AVAILABILITY, APPOINTMENT_SLOTS, response, uuid_counter, utcnow, args, ret,
          tasks, PATIENTS, PROVIDERS, issued_tokens>>

\* Python's None, one value per type of field: an optional string, an
\* optional number or date, an optional time string or list (None and the
\* empty value are both falsy), an optional dict
None == "None"

NoneNum == -1

NoneSeq == <<>>

NoneDict == [none |-> TRUE]

(***************************************************************************)
(* Characters and strings                                                  *)
(***************************************************************************)
Digits == <<"0", "1", "2", "3", "4", "5", "6", "7", "8", "9">>

DigitChars == {Digits[i] : i \in 1..10}

\* ord(c) for the characters a time string is made of
Ord(c) ==
    IF c = ":" THEN 58
    ELSE 47 + (CHOOSE i \in 1..10 : Digits[i] = c)

DigitVal(c) == (CHOOSE i \in 1..10 : Digits[i] = c) - 1

\* Python's str comparison a >= b: lexicographic on code points, a proper
\* prefix being smaller
RECURSIVE StrLess(_, _)
StrLess(a, b) ==
    IF b = <<>> THEN FALSE
    ELSE IF a = <<>> THEN TRUE
    ELSE IF Ord(Head(a)) # Ord(Head(b)) THEN Ord(Head(a)) < Ord(Head(b))
    ELSE StrLess(Tail(a), Tail(b))

StrGeq(a, b) == ~StrLess(a, b)

\* int(s) for a string of decimal digits; fails on anything else
RECURSIVE IntOfDigits(_, _)
IntOfDigits(s, acc) ==
    IF s = <<>> THEN acc
    ELSE IntOfDigits(Tail(s), 10 * acc + DigitVal(Head(s)))

IsInt(s) == Len(s) > 0 /\ \A i \in 1..Len(s) : s[i] \in DigitChars

\* strftime("%H:%M")
strftime_HM(h, m) ==
    <<Digits[(h \div 10) + 1], Digits[(h % 10) + 1], ":",
      Digits[(m \div 10) + 1], Digits[(m % 10) + 1]>>

\* the Field pattern ^([01]?[0-9]|2[0-3]):[0-5][0-9]$
TimePattern(s) ==
    \/ /\ Len(s) = 4
       /\ s[1] \in DigitChars
       /\ s[2] = ":"
       /\ s[3] \in {"0", "1", "2", "3", "4", "5"}
       /\ s[4] \in DigitChars
    \/ /\ Len(s) = 5
       /\ \/ s[1] \in {"0", "1"} /\ s[2] \in DigitChars
          \/ s[1] = "2" /\ s[2] \in {"0", "1", "2", "3"}
       /\ s[3] = ":"
       /\ s[4] \in {"0", "1", "2", "3", "4", "5"}
       /\ s[5] \in DigitChars

(***************************************************************************)
(* Calendar of 2024                                                        *)
(***************************************************************************)
MonthLen == <<31, 29, 31, 30, 31, 30, 31, 31, 30, 31, 30, 31>>

DaysBeforeMonth == <<0, 31, 60, 91, 121, 152, 182, 213, 244, 274, 305, 335>>

MonthOf(d) == CHOOSE m \in 1..12 : DaysBeforeMonth[m] <= d /\ d < DaysBeforeMonth[m] + MonthLen[m]

DayOfMonth(d) == d - DaysBeforeMonth[MonthOf(d)] + 1

DateOf(m, dom) == DaysBeforeMonth[m] + dom - 1

MinutesPerDay == 1440

\* datetime.date() of a UTC instant
UtcDate(instant) == instant \div MinutesPerDay

(***************************************************************************)
(* Time zones (pytz)                                                       *)
(***************************************************************************)
\* the zones of the model: UTC, one with daylight saving time, one east of
\* UTC with a half-hour offset and the easternmost one (UTC+14)
KnownZones == {"UTC", "America/New_York", "Asia/Kolkata", "Pacific/Kiritimati"}

\* 2024-03-10: US clocks go from 02:00 EST to 03:00 EDT
DstDay == 69

DstStartUtc == DstDay * MinutesPerDay + 7 * 60

DstGapStartLocal == DstDay * MinutesPerDay + 2 * 60

DstGapEndLocal == DstDay * MinutesPerDay + 3 * 60

\* tz.localize(naive) with the default is_dst=False: the UTC offset given to
\* a naive local datetime (minutes since 2024-01-01T00:00 on the wall clock);
\* a wall time inside the spring-forward gap keeps the standard offset
localize_offset(tz, local) ==
    CASE tz = "UTC" -> 0
      [] tz = "Asia/Kolkata" -> 330
      [] tz = "Pacific/Kiritimati" -> 840
      [] tz = "America/New_York" ->
            IF local < DstGapEndLocal THEN -300 ELSE -240

\* the offset astimezone(tz) gives to a UTC instant
utc_offset(tz, instant) ==
    CASE tz = "UTC" -> 0
      [] tz = "Asia/Kolkata" -> 330
      [] tz = "Pacific/Kiritimati" -> 840
      [] tz = "America/New_York" ->
            IF instant < DstStartUtc THEN -300 ELSE -240

Raise == [exc |-> TRUE]

Return(v) == [exc |-> FALSE, val |-> v]

\* hour, minute = map(int, local_time.split(':')); time(hour, minute)
ParseTime(local_time) ==
    LET colons == {i \in 1..Len(local_time) : local_time[i] = ":"}
    IN  IF Cardinality(colons) # 1 THEN Raise
        ELSE LET c == CHOOSE i \in colons : TRUE
                 hs == SubSeq(local_time, 1, c - 1)
                 ms == SubSeq(local_time, c + 1, Len(local_time))
             IN  IF ~(IsInt(hs) /\ IsInt(ms)) THEN Raise
                 ELSE LET hour == IntOfDigits(hs, 0)
                          minute == IntOfDigits(ms, 0)
                      IN  IF hour > 23 \/ minute > 59 THEN Raise
                          ELSE Return([hour |-> hour, minute |-> minute])

convert_to_utc(local_time, date_obj, timezone_str) ==
    IF timezone_str \notin KnownZones THEN Raise
    ELSE LET p == ParseTime(local_time)
         IN  IF p.exc THEN Raise
             ELSE LET local == date_obj * MinutesPerDay + p.val.hour * 60 + p.val.minute
                  IN  Return(local - localize_offset(timezone_str, local))

convert_from_utc(utc_datetime, timezone_str) ==
    IF timezone_str \notin KnownZones THEN Raise
    ELSE LET local == utc_datetime + utc_offset(timezone_str, utc_datetime)
             tod == local % MinutesPerDay
         IN  Return(strftime_HM(tod \div 60, tod % 60))

(***************************************************************************)
(* Identity and records                                                    *)
(***************************************************************************)
\* str(uuid.uuid4()): the n-th identifier drawn
uuid4(n) == "uuid-" \o ToString(n)

\* Python truthiness of an optional string / optional value
Truthy(x) == x # None /\ x # ""

\* truthiness of an optional number (None and 0 are falsy)
TruthyNum(x) == x # NoneNum /\ x # 0

(***************************************************************************)
(* Request validation (models/ProviderAvailability.py)                     *)
(***************************************************************************)
\* the fields of ProviderAvailabilityCreate in the order they are declared,
\* which is the order they are validated in
CreateFields ==
    <<"provider_id", "date", "start_time", "end_time", "timezone", "is_recurring",
      "recurrence_pattern", "recurrence_end_date", "slot_duration", "break_duration",
      "status", "max_appointments_per_slot", "appointment_type", "location", "pricing",
      "notes", "special_requirements">>

RecurrencePattern == {"daily", "weekly", "monthly"}

\* validate_end_time: values holds the names of the fields validated so far
validate_end_time(v, data, values) ==
    ("start_time" \in values) => StrLess(data.start_time, v)

validate_recurrence_end_date(v, data, values) ==
    ~("date" \in values /\ v # NoneNum /\ v <= data.date)

validate_recurring_fields(v, data, values) ==
    v => /\ "recurrence_pattern" \in values /\ Truthy(data.recurrence_pattern)
         /\ "recurrence_end_date" \in values /\ data.recurrence_end_date # NoneNum

\* the field passes its type, its Field constraints and its validator
FieldValid(data, field, values) ==
    CASE field = "start_time" -> TimePattern(data.start_time)
      [] field = "end_time" -> /\ TimePattern(data.end_time)
                               /\ validate_end_time(data.end_time, data, values)
      [] field = "is_recurring" -> validate_recurring_fields(data.is_recurring, data, values)
      [] field = "recurrence_pattern" ->
             data.recurrence_pattern \in RecurrencePattern \cup {None}
      [] field = "recurrence_end_date" ->
             validate_recurrence_end_date(data.recurrence_end_date, data, values)
      [] field = "slot_duration" -> data.slot_duration >= 15 /\ data.slot_duration <= 480
      [] field = "break_duration" -> data.break_duration >= 0 /\ data.break_duration <= 120
      [] field = "max_appointments_per_slot" ->
             data.max_appointments_per_slot >= 1 /\ data.max_appointments_per_slot <= 10
      [] OTHER -> TRUE

\* the fields from position k on are validated in turn; a field that passes
\* joins values, one that fails is reported
RECURSIVE ValidateFields(_, _, _, _)
ValidateFields(data, k, values, errors) ==
    IF k > Len(CreateFields) THEN [values |-> values, errors |-> errors]
    ELSE IF FieldValid(data, CreateFields[k], values)
    THEN ValidateFields(data, k + 1, values \cup {CreateFields[k]}, errors)
    ELSE ValidateFields(data, k + 1, values, errors \cup {CreateFields[k]})

\* ProviderAvailabilityCreate(**data): the fields in error; the request is
\* accepted when there are none
ProviderAvailabilityCreate(data) == ValidateFields(data, 1, {}, {}).errors

\* ProviderAvailabilityDB(...) built from a create request, for one date
ProviderAvailabilityDB(availability, date_obj, id, now) ==
    [id |-> id,
     provider_id |-> availability.provider_id,
     date |-> date_obj,
     start_time |-> availability.start_time,
     end_time |-> availability.end_time,
     timezone |-> availability.timezone,
     is_recurring |-> availability.is_recurring,
     recurrence_pattern |-> availability.recurrence_pattern,
     recurrence_end_date |-> availability.recurrence_end_date,
     slot_duration |-> availability.slot_duration,
     break_duration |-> availability.break_duration,
     status |-> availability.status,
     max_appointments_per_slot |-> availability.max_appointments_per_slot,
     current_appointments |-> 0,
     appointment_type |-> availability.appointment_type,
     location |-> availability.location,
     pricing |-> availability.pricing,
     notes |-> availability.notes,
     special_requirements |-> IF availability.special_requirements = NoneSeq
                              THEN <<>> ELSE availability.special_requirements,
     created_at |-> now,
     updated_at |-> now]

\* a slot constructor that copies the status of the window
AppointmentSlot_WindowStatus(availability, id, start, end, now) ==
    [id |-> id,
     availability_id |-> availability.id,
     provider_id |-> availability.provider_id,
     slot_start_time |-> start,
     slot_end_time |-> end,
     status |-> availability.status,
     patient_id |-> None,
     appointment_type |-> availability.appointment_type,
     booking_reference |-> None,
     created_at |-> now,
     updated_at |-> now]

AppointmentSlot(availability, id, start, end, now) ==
    [id |-> id,
     availability_id |-> availability.id,
     provider_id |-> availability.provider_id,
     slot_start_time |-> start,
     slot_end_time |-> end,
     status |-> "available",
     patient_id |-> None,
     appointment_type |-> availability.appointment_type,
     booking_reference |-> None,
     created_at |-> now,
     updated_at |-> now]

(***************************************************************************)
(* Slot Generator                                                          *)
(***************************************************************************)
\* the while loop of generate_slots_from_availability; uid is the number of
\* the next identifier to draw
\* a slot generator that gives up the slot ending exactly at the window end
RECURSIVE SlotLoop_DropsLast(_, _, _, _, _, _)
SlotLoop_DropsLast(availability, current_time, end_dt, slots, uid, now) ==
    IF current_time < end_dt
    THEN LET slot_end_time == current_time + availability.slot_duration
         IN  IF slot_end_time >= end_dt
             THEN slots
             ELSE SlotLoop_DropsLast(availability,
                           slot_end_time + availability.break_duration,
                           end_dt,
                           Append(slots, AppointmentSlot(availability, uuid4(uid),
                                                         current_time, slot_end_time, now)),
                           uid + 1, now)
    ELSE slots

\* a slot generator that starts the next slot where the last one ended
RECURSIVE SlotLoop_IgnoresBreak(_, _, _, _, _, _)
SlotLoop_IgnoresBreak(availability, current_time, end_dt, slots, uid, now) ==
    IF current_time < end_dt
    THEN LET slot_end_time == current_time + availability.slot_duration
         IN  IF slot_end_time > end_dt
             THEN slots
             ELSE SlotLoop_IgnoresBreak(availability,
                           slot_end_time,
                           end_dt,
                           Append(slots, AppointmentSlot(availability, uuid4(uid),
                                                         current_time, slot_end_time, now)),
                           uid + 1, now)
    ELSE slots

RECURSIVE SlotLoop(_, _, _, _, _, _)
SlotLoop(availability, current_time, end_dt, slots, uid, now) ==
    IF current_time < end_dt
    THEN LET slot_end_time == current_time + availability.slot_duration
         IN  IF slot_end_time > end_dt
             THEN slots
             ELSE SlotLoop(availability,
                           slot_end_time + availability.break_duration,
                           end_dt,
                           Append(slots, AppointmentSlot(availability, uuid4(uid),
                                                         current_time, slot_end_time, now)),
                           uid + 1, now)
    ELSE slots

generate_slots_from_availability(availability, uid, now) ==
    LET start_dt == convert_to_utc(availability.start_time, availability.date, availability.timezone)
        end_dt == convert_to_utc(availability.end_time, availability.date, availability.timezone)
    IN  IF start_dt.exc \/ end_dt.exc THEN Raise
        ELSE Return(SlotLoop(availability, start_dt.val, end_dt.val, <<>>, uid, now))

(***************************************************************************)
(* Recurrence Expander                                                     *)
(***************************************************************************)
LastDay == 365

\* rrule(DAILY | WEEKLY, dtstart, until): every interval days, until included
\* a recurrence that treats the end date as excluded
RECURSIVE rrule_days_UntilExcluded(_, _, _, _)
rrule_days_UntilExcluded(interval, d, until, acc) ==
    IF d >= until \/ d > LastDay THEN acc
    ELSE rrule_days_UntilExcluded(interval, d + interval, until, Append(acc, d))

RECURSIVE rrule_days(_, _, _, _)
rrule_days(interval, d, until, acc) ==
    IF d > until \/ d > LastDay THEN acc
    ELSE rrule_days(interval, d + interval, until, Append(acc, d))

\* rrule(MONTHLY, dtstart, until): the day of month of dtstart in each
\* following month that has such a day, until included
RECURSIVE rrule_months(_, _, _, _)
rrule_months(m, dom, until, acc) ==
    IF m > 12 THEN acc
    ELSE IF dom > MonthLen[m] THEN rrule_months(m + 1, dom, until, acc)
    ELSE IF DateOf(m, dom) > until THEN acc
    ELSE rrule_months(m + 1, dom, until, Append(acc, DateOf(m, dom)))

rrule(freq, dtstart, until) ==
    CASE freq = "daily" -> rrule_days(1, dtstart, until, <<>>)
      [] freq = "weekly" -> rrule_days(7, dtstart, until, <<>>)
      [] freq = "monthly" -> rrule_months(MonthOf(dtstart), DayOfMonth(dtstart), until, <<>>)

\* the for loop of generate_recurring_slots over the occurrence dates
RECURSIVE RecurLoop(_, _, _, _, _)
RecurLoop(availability, dates, results, uid, now) ==
    IF dates = <<>> THEN Return(results)
    ELSE LET availability_db == ProviderAvailabilityDB(availability, Head(dates), uuid4(uid), now)
             slots == generate_slots_from_availability(availability_db, uid + 1, now)
         IN  IF slots.exc THEN Raise
             ELSE RecurLoop(availability, Tail(dates),
                            Append(results, [availability |-> availability_db, slots |-> slots.val]),
                            uid + 1 + Len(slots.val), now)

generate_recurring_slots(availability, uid, now) ==
    IF ~availability.is_recurring
       \/ availability.recurrence_pattern = None
       \/ availability.recurrence_end_date = NoneNum
    THEN Return(<<>>)
    ELSE IF availability.recurrence_pattern \notin {"daily", "weekly", "monthly"}
    THEN Raise
    ELSE RecurLoop(availability,
                   rrule(availability.recurrence_pattern, availability.date,
                         availability.recurrence_end_date),
                   <<>>, uid, now)

(***************************************************************************)
(* Store (models/provider_availability_store.py)                           *)
(***************************************************************************)
\* a lookup that falls back to every slot when the id matches none
get_appointment_slots_FallsBack(store, provider_id, availability_id, slot_id) ==
    IF Truthy(slot_id)
    THEN IF \E i \in 1..Len(store) : store[i].id = slot_id
         THEN SelectSeq(store, LAMBDA slot : slot.id = slot_id)
         ELSE store
    ELSE IF Truthy(availability_id)
    THEN SelectSeq(store, LAMBDA slot : slot.availability_id = availability_id)
    ELSE IF Truthy(provider_id)
    THEN SelectSeq(store, LAMBDA slot : slot.provider_id = provider_id)
    ELSE store

get_appointment_slots(store, provider_id, availability_id, slot_id) ==
    IF Truthy(slot_id)
    THEN SelectSeq(store, LAMBDA slot : slot.id = slot_id)
    ELSE IF Truthy(availability_id)
    THEN SelectSeq(store, LAMBDA slot : slot.availability_id = availability_id)
    ELSE IF Truthy(provider_id)
    THEN SelectSeq(store, LAMBDA slot : slot.provider_id = provider_id)
    ELSE store

\* dict.update(updates)
DictUpdate(d, updates) ==
    [k \in DOMAIN d \cup DOMAIN updates |->
        IF k \in DOMAIN updates THEN updates[k] ELSE d[k]]

\* dict.get(key, default)
DictGet(d, key, default) == IF key \in DOMAIN d THEN d[key] ELSE default

IndexOfSlot(store, slot_id) ==
    IF \E i \in 1..Len(store) : store[i].id = slot_id
    THEN CHOOSE i \in 1..Len(store) :
            /\ store[i].id = slot_id
            /\ \A j \in 1..(i - 1) : store[j].id # slot_id
    ELSE 0

\* an update that merges every key of the patch but the notes
update_appointment_slot_DropsNotes(store, slot_id, updates) ==
    LET i == IndexOfSlot(store, slot_id)
        kept == [k \in DOMAIN updates \ {"notes"} |-> updates[k]]
    IN  IF i = 0 THEN store
        ELSE [store EXCEPT ![i] =
                 [DictUpdate(store[i], kept) EXCEPT
                     !.updated_at = DictGet(updates, "updated_at", NoneNum)]]

\* an update that also moves the stored start instant to the patched time of
\* day
update_appointment_slot_Reschedules(store, slot_id, updates) ==
    LET i == IndexOfSlot(store, slot_id)
        merged == [DictUpdate(store[i], updates) EXCEPT
                      !.updated_at = DictGet(updates, "updated_at", NoneNum)]
        t == ParseTime(updates.start_time).val
    IN  IF i = 0 THEN store
        ELSE IF "start_time" \in DOMAIN updates
        THEN [store EXCEPT ![i] =
                 [merged EXCEPT !.slot_start_time =
                     (store[i].slot_start_time \div MinutesPerDay) * MinutesPerDay
                        + t.hour * 60 + t.minute]]
        ELSE [store EXCEPT ![i] = merged]

\* update_appointment_slot: the first slot with the id is updated in place
update_appointment_slot(store, slot_id, updates) ==
    LET i == IndexOfSlot(store, slot_id)
    IN  IF i = 0 THEN store
        ELSE [store EXCEPT ![i] =
                 [DictUpdate(store[i], updates) EXCEPT
                     !.updated_at = DictGet(updates, "updated_at", NoneNum)]]

\* a delete that drops the slot and everything stored after it
delete_appointment_slot_Truncates(store, slot_id) ==
    LET i == IndexOfSlot(store, slot_id)
    IN  IF i = 0 THEN store
        ELSE SubSeq(store, 1, i - 1)

\* delete_appointment_slot: the first slot with the id is removed
delete_appointment_slot(store, slot_id) ==
    LET i == IndexOfSlot(store, slot_id)
    IN  IF i = 0 THEN store
        ELSE SubSeq(store, 1, i - 1) \o SubSeq(store, i + 1, Len(store))

(***************************************************************************)
(* Conflict Checker                                                        *)
(***************************************************************************)
\* the for loop of check_slot_conflicts over the provider's slots
\* a conflict test that lets cancelled slots through
RECURSIVE ConflictLoop_SkipsCancelled(_, _, _, _)
ConflictLoop_SkipsCancelled(existing_slots, start_time, end_time, exclude_slot_id) ==
    IF existing_slots = <<>> THEN FALSE
    ELSE LET slot == Head(existing_slots)
         IN  IF (Truthy(exclude_slot_id) /\ slot.id = exclude_slot_id)
                \/ slot.status = "cancelled"
             THEN ConflictLoop_SkipsCancelled(Tail(existing_slots), start_time, end_time, exclude_slot_id)
             ELSE IF start_time < slot.slot_end_time /\ end_time > slot.slot_start_time
             THEN TRUE
             ELSE ConflictLoop_SkipsCancelled(Tail(existing_slots), start_time, end_time, exclude_slot_id)

\* a conflict test that counts a candidate starting where a slot ends
RECURSIVE ConflictLoop_ClosedEnd(_, _, _, _)
ConflictLoop_ClosedEnd(existing_slots, start_time, end_time, exclude_slot_id) ==
    IF existing_slots = <<>> THEN FALSE
    ELSE LET slot == Head(existing_slots)
         IN  IF Truthy(exclude_slot_id) /\ slot.id = exclude_slot_id
             THEN ConflictLoop_ClosedEnd(Tail(existing_slots), start_time, end_time, exclude_slot_id)
             ELSE IF start_time <= slot.slot_end_time /\ end_time > slot.slot_start_time
             THEN TRUE
             ELSE ConflictLoop_ClosedEnd(Tail(existing_slots), start_time, end_time, exclude_slot_id)

RECURSIVE ConflictLoop(_, _, _, _)
ConflictLoop(existing_slots, start_time, end_time, exclude_slot_id) ==
    IF existing_slots = <<>> THEN FALSE
    ELSE LET slot == Head(existing_slots)
         IN  IF Truthy(exclude_slot_id) /\ slot.id = exclude_slot_id
             THEN ConflictLoop(Tail(existing_slots), start_time, end_time, exclude_slot_id)
             ELSE IF start_time < slot.slot_end_time /\ end_time > slot.slot_start_time
             THEN TRUE
             ELSE ConflictLoop(Tail(existing_slots), start_time, end_time, exclude_slot_id)

\* a conflict check that scans the slots of every provider
check_slot_conflicts_AnyProvider(store, provider_id, start_time, end_time, exclude_slot_id) ==
    ConflictLoop(store, start_time, end_time, exclude_slot_id)

check_slot_conflicts(store, provider_id, start_time, end_time, exclude_slot_id) ==
    ConflictLoop(get_appointment_slots(store, provider_id, None, None),
                 start_time, end_time, exclude_slot_id)

(***************************************************************************)
(* Seed data of the store                                                  *)
(***************************************************************************)
\* 2024-02-15
SeedDate == 45

SeedAvailability ==
    [id |-> "availability-123",
     provider_id |-> "provider-123",
     date |-> SeedDate,
     start_time |-> strftime_HM(9, 0),
     end_time |-> strftime_HM(17, 0),
     timezone |-> "America/New_York",
     is_recurring |-> FALSE,
     recurrence_pattern |-> None,
     recurrence_end_date |-> NoneNum,
     slot_duration |-> 30,
     break_duration |-> 0,
     status |-> "available",
     max_appointments_per_slot |-> 1,
     current_appointments |-> 0,
     appointment_type |-> "consultation",
     location |-> [type |-> "clinic",
                   address |-> "123 Medical Center Dr, New York, NY 10001",
                   room_number |-> "Room 205"],
     pricing |-> [base_fee |-> 150, insurance_accepted |-> TRUE, currency |-> "USD"],
     notes |-> "Standard consultation slots",
     special_requirements |-> <<"bring_insurance_card">>,
     created_at |-> 0,
     updated_at |-> 0]

SeedSlot(id, start) ==
    [id |-> id,
     availability_id |-> "availability-123",
     provider_id |-> "provider-123",
     slot_start_time |-> start,
     slot_end_time |-> start + 30,
     status |-> "available",
     patient_id |-> None,
     appointment_type |-> "consultation",
     booking_reference |-> None,
     created_at |-> 0,
     updated_at |-> 0]

SeedSlots ==
    <<SeedSlot("slot-123", SeedDate * MinutesPerDay + 14 * 60),
      SeedSlot("slot-124", SeedDate * MinutesPerDay + 14 * 60 + 30)>>

(***************************************************************************)
(* Account stores                                                          *)
(***************************************************************************)
\* a phone number as the characters of its string: an optional "+" and the
\* digits given
PhoneNumber(plus, digits) ==
    (IF plus THEN <<"+">> ELSE <<>>) \o [i \in 1..Len(digits) |-> Digits[digits[i] + 1]]

\* bcrypt.hashpw / bcrypt.checkpw: the hash verifies exactly the password it
\* was made from
hash_password(password) == [bcrypt |-> password]

verify_password(password, hashed) == hashed.bcrypt = password

SeedPassword == "SecurePassword123!"

SeedPatients ==
    <<[id |-> "patient-123", first_name |-> "Jane", last_name |-> "Smith",
       email |-> "jane.smith@email.com",
       phone_number |-> PhoneNumber(TRUE, <<1, 2, 3, 4, 5, 6, 7, 8, 9, 0>>),
       password_hash |-> hash_password(SeedPassword),
       email_verified |-> TRUE, phone_verified |-> FALSE, is_active |-> TRUE,
       created_at |-> 0, updated_at |-> 0],
      [id |-> "patient-456", first_name |-> "Michael", last_name |-> "Johnson",
       email |-> "michael.johnson@email.com",
       phone_number |-> PhoneNumber(TRUE, <<1, 2, 3, 4, 5, 6, 7, 8, 9, 2>>),
       password_hash |-> hash_password(SeedPassword),
       email_verified |-> TRUE, phone_verified |-> TRUE, is_active |-> TRUE,
       created_at |-> 0, updated_at |-> 0]>>

SeedProvider(id, first_name, last_name, email, specialization) ==
    [id |-> id, first_name |-> first_name, last_name |-> last_name, email |-> email,
     password_hash |-> hash_password(SeedPassword),
     specialization |-> specialization,
     verification_status |-> "verified",
     is_active |-> TRUE,
     failed_login_attempts |-> 0,
     locked_until |-> NoneNum,
     last_login |-> NoneNum,
     login_count |-> 0]

SeedProviders ==
    <<SeedProvider("provider-123", "Dr. John", "Smith", "john.smith@healthcare.com",
                   "Cardiology"),
      SeedProvider("provider-456", "Dr. Sarah", "Johnson", "sarah.johnson@healthcare.com",
                   "Pediatrics")>>

NoCall == [fn |-> "none"]

\* no call in flight
NoTasks == <<>>

Init ==
    /\ PROVIDER_AVAILABILITY = <<SeedAvailability>>
    /\ APPOINTMENT_SLOTS = SeedSlots
    /\ response = [op |-> "none"]
    /\ uuid_counter = 1
    /\ utcnow = 1
    /\ args = NoCall
    /\ ret = NoCall
    /\ tasks = NoTasks
    /\ PATIENTS = SeedPatients
    /\ PROVIDERS = SeedProviders
    /\ issued_tokens = {}

(***************************************************************************)
(* Availability Service: Create                                            *)
(***************************************************************************)
CreateFailure(message, status_code) ==
    [pa |-> PROVIDER_AVAILABILITY, slots |-> APPOINTMENT_SLOTS,
     uuid |-> uuid_counter, now |-> utcnow,
     response |-> [op |-> "create", success |-> FALSE,
                   message |-> message, status_code |-> status_code]]

\* a storing loop that counts one appointment per slot
RECURSIVE StoreLoop_OnePerSlot(_, _)
StoreLoop_OnePerSlot(results, acc) ==
    IF results = <<>> THEN acc
    ELSE LET availability_db == Head(results).availability
             slots == Head(results).slots
         IN  StoreLoop_OnePerSlot(Tail(results),
                       [pa |-> Append(acc.pa, availability_db),
                        slots |-> acc.slots \o slots,
                        slots_created |-> acc.slots_created + Len(slots),
                        total_appointments |-> acc.total_appointments + Len(slots)])

\* a storing loop that appends the slots but not their availability window
RECURSIVE StoreLoop_SlotsOnly(_, _)
StoreLoop_SlotsOnly(results, acc) ==
    IF results = <<>> THEN acc
    ELSE LET availability_db == Head(results).availability
             slots == Head(results).slots
         IN  StoreLoop_SlotsOnly(Tail(results),
                       [pa |-> acc.pa,
                        slots |-> acc.slots \o slots,
                        slots_created |-> acc.slots_created + Len(slots),
                        total_appointments |-> acc.total_appointments
                            + Len(slots) * availability_db.max_appointments_per_slot])

\* the storing loops of create_provider_availability: each availability is
\* appended, then each of its slots, counting slots_created and
\* total_appointments as they go
RECURSIVE StoreLoop(_, _)
StoreLoop(results, acc) ==
    IF results = <<>> THEN acc
    ELSE LET availability_db == Head(results).availability
             slots == Head(results).slots
         IN  StoreLoop(Tail(results),
                       [pa |-> Append(acc.pa, availability_db),
                        slots |-> acc.slots \o slots,
                        slots_created |-> acc.slots_created + Len(slots),
                        total_appointments |-> acc.total_appointments
                            + Len(slots) * availability_db.max_appointments_per_slot])

CreateSuccess(results, availability_id, date_range) ==
    LET stored == StoreLoop(results, [pa |-> PROVIDER_AVAILABILITY,
                                      slots |-> APPOINTMENT_SLOTS,
                                      slots_created |-> 0,
                                      total_appointments |-> 0])
    IN  [pa |-> stored.pa,
         slots |-> stored.slots,
         uuid |-> uuid_counter + Len(results) + stored.slots_created,
         now |-> utcnow + 1,
         response |-> [op |-> "create", success |-> TRUE,
                       message |-> "Availability slots created successfully",
                       data |-> [availability_id |-> availability_id,
                                 slots_created |-> stored.slots_created,
                                 date_range |-> date_range,
                                 total_appointments_available |-> stored.total_appointments]]]

\* a create that runs the conflict check for recurring requests too, on the
\* window of the first date
CreateOutcome_ChecksRecurring(availability) ==
    IF StrGeq(availability.start_time, availability.end_time)
    THEN CreateFailure("End time must be after start time", 400)
    ELSE
    LET start_dt == convert_to_utc(availability.start_time, availability.date, availability.timezone)
        end_dt == convert_to_utc(availability.end_time, availability.date, availability.timezone)
    IN
    IF start_dt.exc \/ end_dt.exc
    THEN CreateFailure("Failed to create availability slots", 500)
    ELSE IF check_slot_conflicts(APPOINTMENT_SLOTS, availability.provider_id,
                                 start_dt.val, end_dt.val, None)
    THEN CreateFailure("Time slot conflicts with existing availability", 409)
    ELSE IF availability.is_recurring
    THEN LET recurring_results == generate_recurring_slots(availability, uuid_counter, utcnow)
         IN  IF recurring_results.exc \/ availability.recurrence_end_date = NoneNum
             THEN CreateFailure("Failed to create availability slots", 500)
             ELSE CreateSuccess(recurring_results.val, "multiple",
                                [start |-> availability.date,
                                 end |-> availability.recurrence_end_date])
    ELSE LET availability_db == ProviderAvailabilityDB(availability, availability.date,
                                                       uuid4(uuid_counter), utcnow)
             slots == generate_slots_from_availability(availability_db, uuid_counter + 1, utcnow)
         IN  CreateSuccess(<<[availability |-> availability_db, slots |-> slots.val]>>,
                           availability_db.id,
                           [start |-> availability.date, end |-> availability.date])

\* a create that stores the window before it runs the conflict check
CreateOutcome_StoresBeforeCheck(availability) ==
    IF StrGeq(availability.start_time, availability.end_time)
    THEN CreateFailure("End time must be after start time", 400)
    ELSE
    LET start_dt == convert_to_utc(availability.start_time, availability.date, availability.timezone)
        end_dt == convert_to_utc(availability.end_time, availability.date, availability.timezone)
    IN
    IF ~availability.is_recurring /\ (start_dt.exc \/ end_dt.exc)
    THEN CreateFailure("Failed to create availability slots", 500)
    ELSE IF ~availability.is_recurring
            /\ check_slot_conflicts(APPOINTMENT_SLOTS, availability.provider_id,
                                    start_dt.val, end_dt.val, None)
    THEN [CreateFailure("Time slot conflicts with existing availability", 409) EXCEPT
             !.pa = Append(PROVIDER_AVAILABILITY,
                           ProviderAvailabilityDB(availability, availability.date,
                                                  uuid4(uuid_counter), utcnow))]
    ELSE IF availability.is_recurring
    THEN LET recurring_results == generate_recurring_slots(availability, uuid_counter, utcnow)
         IN  IF recurring_results.exc \/ availability.recurrence_end_date = NoneNum
             THEN CreateFailure("Failed to create availability slots", 500)
             ELSE CreateSuccess(recurring_results.val, "multiple",
                                [start |-> availability.date,
                                 end |-> availability.recurrence_end_date])
    ELSE LET availability_db == ProviderAvailabilityDB(availability, availability.date,
                                                       uuid4(uuid_counter), utcnow)
             slots == generate_slots_from_availability(availability_db, uuid_counter + 1, utcnow)
         IN  CreateSuccess(<<[availability |-> availability_db, slots |-> slots.val]>>,
                           availability_db.id,
                           [start |-> availability.date, end |-> availability.date])

\* the state and response create_provider_availability leaves
CreateOutcome(availability) ==
    IF StrGeq(availability.start_time, availability.end_time)
    THEN CreateFailure("End time must be after start time", 400)
    ELSE
    LET start_dt == convert_to_utc(availability.start_time, availability.date, availability.timezone)
        end_dt == convert_to_utc(availability.end_time, availability.date, availability.timezone)
    IN
    IF ~availability.is_recurring /\ (start_dt.exc \/ end_dt.exc)
    THEN CreateFailure("Failed to create availability slots", 500)
    ELSE IF ~availability.is_recurring
            /\ check_slot_conflicts(APPOINTMENT_SLOTS, availability.provider_id,
                                    start_dt.val, end_dt.val, None)
    THEN CreateFailure("Time slot conflicts with existing availability", 409)
    ELSE IF availability.is_recurring
    THEN LET recurring_results == generate_recurring_slots(availability, uuid_counter, utcnow)
         IN  IF recurring_results.exc \/ availability.recurrence_end_date = NoneNum
             THEN CreateFailure("Failed to create availability slots", 500)
             ELSE CreateSuccess(recurring_results.val, "multiple",
                                [start |-> availability.date,
                                 end |-> availability.recurrence_end_date])
    ELSE LET availability_db == ProviderAvailabilityDB(availability, availability.date,
                                                       uuid4(uuid_counter), utcnow)
             slots == generate_slots_from_availability(availability_db, uuid_counter + 1, utcnow)
         IN  CreateSuccess(<<[availability |-> availability_db, slots |-> slots.val]>>,
                           availability_db.id,
                           [start |-> availability.date, end |-> availability.date])

create_provider_availability(availability) ==
    LET out == CreateOutcome(availability)
    IN  /\ PROVIDER_AVAILABILITY' = out.pa
        /\ APPOINTMENT_SLOTS' = out.slots
        /\ uuid_counter' = out.uuid
        /\ utcnow' = out.now
        /\ response' = out.response
        /\ UNCHANGED <<fnVars, taskVars, accountVars>>

(***************************************************************************)
(* Availability Service: UpdateSlot                                        *)
(***************************************************************************)
UpdateFailure(message, status_code) ==
    [slots |-> APPOINTMENT_SLOTS, now |-> utcnow,
     response |-> [op |-> "update", success |-> FALSE,
                   message |-> message, status_code |-> status_code]]

\* an update_data that always carries a status, "available" when the patch
\* has none
UpdateData_ResetsStatus(updates, now) ==
    LET keys == {k \in {"start_time", "end_time", "special_requirements"} : updates[k] # NoneSeq}
                \cup {k \in {"notes"} : Truthy(updates[k])}
                \cup {k \in {"pricing"} : updates[k] # NoneDict}
                \cup {"status", "updated_at"}
    IN  [k \in keys |-> IF k = "updated_at" THEN now
                        ELSE IF k = "status" /\ ~Truthy(updates[k]) THEN "available"
                        ELSE updates[k]]

\* update_data: only the fields of the patch that are truthy, plus updated_at
UpdateData(updates, now) ==
    LET keys == {k \in {"start_time", "end_time", "special_requirements"} : updates[k] # NoneSeq}
                \cup {k \in {"status", "notes"} : Truthy(updates[k])}
                \cup {k \in {"pricing"} : updates[k] # NoneDict}
                \cup {"updated_at"}
    IN  [k \in keys |-> IF k = "updated_at" THEN now ELSE updates[k]]

\* an update whose conflict check does not exclude the slot itself
UpdateOutcome_NoExclude(slot_id, updates) ==
    LET existing_slots == get_appointment_slots(APPOINTMENT_SLOTS, None, None, slot_id)
    IN
    IF existing_slots = <<>> THEN UpdateFailure("Slot not found", 404)
    ELSE
    LET slot == existing_slots[1]
        timed == updates.start_time # NoneSeq \/ updates.end_time # NoneSeq
        new_start_time == IF updates.start_time # NoneSeq THEN updates.start_time
                          ELSE convert_from_utc(slot.slot_start_time, "UTC").val
        new_end_time == IF updates.end_time # NoneSeq THEN updates.end_time
                        ELSE convert_from_utc(slot.slot_end_time, "UTC").val
        slot_date == UtcDate(slot.slot_start_time)
        new_start_dt == convert_to_utc(new_start_time, slot_date, "UTC")
        new_end_dt == convert_to_utc(new_end_time, slot_date, "UTC")
    IN
    IF timed /\ (new_start_dt.exc \/ new_end_dt.exc)
    THEN UpdateFailure("Failed to update slot", 500)
    ELSE IF timed /\ check_slot_conflicts(APPOINTMENT_SLOTS, slot.provider_id,
                                          new_start_dt.val, new_end_dt.val, None)
    THEN UpdateFailure("Updated time conflicts with existing availability", 409)
    ELSE IF IndexOfSlot(APPOINTMENT_SLOTS, slot_id) = 0
    THEN [UpdateFailure("Failed to update slot", 500) EXCEPT !.now = utcnow + 1]
    ELSE [slots |-> update_appointment_slot(APPOINTMENT_SLOTS, slot_id, UpdateData(updates, utcnow)),
          now |-> utcnow + 1,
          response |-> [op |-> "update", success |-> TRUE,
                        message |-> "Slot updated successfully"]]

\* the state and response update_availability_slot leaves
UpdateOutcome(slot_id, updates) ==
    LET existing_slots == get_appointment_slots(APPOINTMENT_SLOTS, None, None, slot_id)
    IN
    IF existing_slots = <<>> THEN UpdateFailure("Slot not found", 404)
    ELSE
    LET slot == existing_slots[1]
        timed == updates.start_time # NoneSeq \/ updates.end_time # NoneSeq
        new_start_time == IF updates.start_time # NoneSeq THEN updates.start_time
                          ELSE convert_from_utc(slot.slot_start_time, "UTC").val
        new_end_time == IF updates.end_time # NoneSeq THEN updates.end_time
                        ELSE convert_from_utc(slot.slot_end_time, "UTC").val
        slot_date == UtcDate(slot.slot_start_time)
        new_start_dt == convert_to_utc(new_start_time, slot_date, "UTC")
        new_end_dt == convert_to_utc(new_end_time, slot_date, "UTC")
    IN
    IF timed /\ (new_start_dt.exc \/ new_end_dt.exc)
    THEN UpdateFailure("Failed to update slot", 500)
    ELSE IF timed /\ check_slot_conflicts(APPOINTMENT_SLOTS, slot.provider_id,
                                          new_start_dt.val, new_end_dt.val, slot_id)
    THEN UpdateFailure("Updated time conflicts with existing availability", 409)
    ELSE IF IndexOfSlot(APPOINTMENT_SLOTS, slot_id) = 0
    THEN [UpdateFailure("Failed to update slot", 500) EXCEPT !.now = utcnow + 1]
    ELSE [slots |-> update_appointment_slot(APPOINTMENT_SLOTS, slot_id, UpdateData(updates, utcnow)),
          now |-> utcnow + 1,
          response |-> [op |-> "update", success |-> TRUE,
                        message |-> "Slot updated successfully"]]

update_availability_slot(slot_id, updates) ==
    LET out == UpdateOutcome(slot_id, updates)
    IN  /\ APPOINTMENT_SLOTS' = out.slots
        /\ utcnow' = out.now
        /\ response' = out.response
        /\ UNCHANGED <<PROVIDER_AVAILABILITY, uuid_counter>>
        /\ UNCHANGED <<fnVars, taskVars, accountVars>>

(***************************************************************************)
(* Availability Service: DeleteSlot                                        *)
(***************************************************************************)
DeleteFailure(message, status_code) ==
    [slots |-> APPOINTMENT_SLOTS,
     response |-> [op |-> "delete", success |-> FALSE,
                   message |-> message, status_code |-> status_code]]

\* a cascade that removes the booked siblings too
RECURSIVE CascadeLoop_DeletesBooked(_, _, _)
CascadeLoop_DeletesBooked(store, related_slots, slot_id) ==
    IF related_slots = <<>> THEN store
    ELSE LET related_slot == Head(related_slots)
         IN  IF related_slot.id # slot_id
             THEN CascadeLoop_DeletesBooked(delete_appointment_slot(store, related_slot.id),
                                            Tail(related_slots), slot_id)
             ELSE CascadeLoop_DeletesBooked(store, Tail(related_slots), slot_id)

\* the cascade loop: every other non-booked slot of the availability goes
RECURSIVE CascadeLoop(_, _, _)
CascadeLoop(store, related_slots, slot_id) ==
    IF related_slots = <<>> THEN store
    ELSE LET related_slot == Head(related_slots)
         IN  IF related_slot.id # slot_id /\ related_slot.status # "booked"
             THEN CascadeLoop(delete_appointment_slot(store, related_slot.id),
                              Tail(related_slots), slot_id)
             ELSE CascadeLoop(store, Tail(related_slots), slot_id)

\* a delete whose cascade form forgets the booked check on the target
DeleteOutcome_CascadeUnchecked(slot_id, delete_recurring) ==
    LET existing_slots == get_appointment_slots(APPOINTMENT_SLOTS, None, None, slot_id)
    IN
    IF existing_slots = <<>> THEN DeleteFailure("Slot not found", 404)
    ELSE
    LET slot == existing_slots[1]
    IN
    IF ~delete_recurring /\ slot.status = "booked"
    THEN DeleteFailure("Cannot delete booked slot", 400)
    ELSE LET remaining == delete_appointment_slot(APPOINTMENT_SLOTS, slot_id)
         IN  [slots |-> IF delete_recurring
                        THEN CascadeLoop(remaining,
                                         get_appointment_slots(remaining, None,
                                                               slot.availability_id, None),
                                         slot_id)
                        ELSE remaining,
              response |-> [op |-> "delete", success |-> TRUE,
                            message |-> "Slot deleted successfully"]]

\* the state and response delete_availability_slot leaves
DeleteOutcome(slot_id, delete_recurring) ==
    LET existing_slots == get_appointment_slots(APPOINTMENT_SLOTS, None, None, slot_id)
    IN
    IF existing_slots = <<>> THEN DeleteFailure("Slot not found", 404)
    ELSE
    LET slot == existing_slots[1]
    IN
    IF slot.status = "booked" THEN DeleteFailure("Cannot delete booked slot", 400)
    ELSE IF IndexOfSlot(APPOINTMENT_SLOTS, slot_id) = 0
    THEN DeleteFailure("Failed to delete slot", 500)
    ELSE LET remaining == delete_appointment_slot(APPOINTMENT_SLOTS, slot_id)
         IN  [slots |-> IF delete_recurring
                        THEN CascadeLoop(remaining,
                                         get_appointment_slots(remaining, None,
                                                               slot.availability_id, None),
                                         slot_id)
                        ELSE remaining,
              response |-> [op |-> "delete", success |-> TRUE,
                            message |-> "Slot deleted successfully"]]

delete_availability_slot(slot_id, delete_recurring) ==
    LET out == DeleteOutcome(slot_id, delete_recurring)
    IN  /\ APPOINTMENT_SLOTS' = out.slots
        /\ response' = out.response
        /\ UNCHANGED <<PROVIDER_AVAILABILITY, uuid_counter, utcnow>>
        /\ UNCHANGED <<fnVars, taskVars, accountVars>>

\* clear_all_data of the store
clear_all_data ==
    /\ PROVIDER_AVAILABILITY' = <<>>
    /\ APPOINTMENT_SLOTS' = <<>>
    /\ response' = [op |-> "clear"]
    /\ UNCHANGED <<uuid_counter, utcnow>>
    /\ UNCHANGED <<fnVars, taskVars, accountVars>>

(***************************************************************************)
(* Availability Service: Search                                            *)
(***************************************************************************)
EmptyDict == <<>>

\* the fabricated provider record of search_availability_slots; the ids of
\* the model all start with "provider", the [:8] prefix the name is built of
ProviderInfo(provider_id) ==
    [id |-> provider_id,
     name |-> "Dr. Provider provider",
     specialization |-> "General Medicine",
     years_of_experience |-> 10,
     rating |-> 45,
     clinic_address |-> "123 Medical Center Dr, New York, NY"]

\* location.lower() in clinic_address.lower(), for the locations searched for
LocationInClinicAddress(location) == location \in {"new york", "New York", "Medical Center"}

\* does the slot pass every filter of the search loop
SearchKeeps(slot, search_request) ==
    LET slot_date == UtcDate(slot.slot_start_time)
    IN  /\ ~(search_request.available_only /\ slot.status # "available")
        /\ ~(search_request.date # NoneNum /\ slot_date # search_request.date)
        /\ ~(search_request.start_date # NoneNum /\ slot_date < search_request.start_date)
        /\ ~(search_request.end_date # NoneNum /\ slot_date > search_request.end_date)
        /\ ~(Truthy(search_request.appointment_type)
             /\ slot.appointment_type # search_request.appointment_type)
        /\ ~(Truthy(search_request.location)
             /\ ~LocationInClinicAddress(search_request.location))
        /\ ~(TruthyNum(search_request.max_price)
             /\ DictGet(DictGet(slot, "pricing", EmptyDict), "base_fee", 0)
                    > search_request.max_price)
        /\ ~(search_request.insurance_accepted # NoneSeq
             /\ DictGet(DictGet(slot, "pricing", EmptyDict), "insurance_accepted", TRUE)
                    # search_request.insurance_accepted[1])

SlotInfo(slot, display_timezone) ==
    [slot_id |-> slot.id,
     date |-> UtcDate(slot.slot_start_time),
     start_time |-> convert_from_utc(slot.slot_start_time, display_timezone).val,
     end_time |-> convert_from_utc(slot.slot_end_time, display_timezone).val,
     appointment_type |-> slot.appointment_type,
     location |-> DictGet(slot, "location", NoneDict),
     pricing |-> DictGet(slot, "pricing", NoneDict),
     special_requirements |-> DictGet(slot, "special_requirements", <<>>)]

\* the grouping loop: providers in order of first appearance, each with its
\* slots in store order
RECURSIVE GroupByProvider(_, _, _)
GroupByProvider(filtered_slots, providers, display_timezone) ==
    IF filtered_slots = <<>> THEN providers
    ELSE LET slot == Head(filtered_slots)
             known == \E i \in 1..Len(providers) : providers[i].provider.id = slot.provider_id
             listed == IF known THEN providers
                       ELSE Append(providers, [provider |-> ProviderInfo(slot.provider_id),
                                               available_slots |-> <<>>])
             i == CHOOSE j \in 1..Len(listed) : listed[j].provider.id = slot.provider_id
         IN  GroupByProvider(Tail(filtered_slots),
                             [listed EXCEPT ![i].available_slots =
                                 Append(@, SlotInfo(slot, display_timezone))],
                             display_timezone)

SearchCriteria(search_request) ==
    LET keys == {k \in {"date", "start_date", "end_date"} : search_request[k] # NoneNum}
                \cup {k \in {"specialization", "location"} : Truthy(search_request[k])}
    IN  [k \in keys |-> search_request[k]]

\* the response of search_availability_slots
SearchOutcome(search_request) ==
    LET filtered_slots == SelectSeq(APPOINTMENT_SLOTS, LAMBDA slot : SearchKeeps(slot, search_request))
        display_timezone == IF Truthy(search_request.timezone) THEN search_request.timezone
                            ELSE "America/New_York"
    IN  IF filtered_slots # <<>> /\ display_timezone \notin KnownZones
        THEN [op |-> "search", success |-> FALSE,
              message |-> "Failed to search availability", status_code |-> 500]
        ELSE LET providers == GroupByProvider(filtered_slots, <<>>, display_timezone)
             IN  [op |-> "search", success |-> TRUE,
                  data |-> [search_criteria |-> SearchCriteria(search_request),
                            total_results |-> Len(providers),
                            results |-> providers]]

search_availability_slots(search_request) ==
    /\ response' = SearchOutcome(search_request)
    /\ UNCHANGED <<PROVIDER_AVAILABILITY, APPOINTMENT_SLOTS, uuid_counter, utcnow>>
    /\ UNCHANGED <<fnVars, taskVars, accountVars>>

(***************************************************************************)
(* Availability Service: List                                              *)
(***************************************************************************)
\* a date filter that leaves out the slots of the end date
ListKeeps_EndExcluded(slot, start_date, end_date, status, appointment_type) ==
    LET slot_date == UtcDate(slot.slot_start_time)
    IN  /\ start_date <= slot_date /\ slot_date < end_date
        /\ ~(Truthy(status) /\ slot.status # status)
        /\ ~(Truthy(appointment_type) /\ slot.appointment_type # appointment_type)

\* the filter loop of get_provider_availability_slots: slot_date is the date
\* of the UTC start
ListKeeps(slot, start_date, end_date, status, appointment_type) ==
    LET slot_date == UtcDate(slot.slot_start_time)
    IN  /\ start_date <= slot_date /\ slot_date <= end_date
        /\ ~(Truthy(status) /\ slot.status # status)
        /\ ~(Truthy(appointment_type) /\ slot.appointment_type # appointment_type)

ListSlotInfo(slot, display_timezone) ==
    [slot_id |-> slot.id,
     start_time |-> convert_from_utc(slot.slot_start_time, display_timezone).val,
     end_time |-> convert_from_utc(slot.slot_end_time, display_timezone).val,
     status |-> slot.status,
     appointment_type |-> slot.appointment_type,
     location |-> DictGet(slot, "location", NoneDict),
     pricing |-> DictGet(slot, "pricing", NoneDict)]

\* sorted(availability_by_date.keys())
RECURSIVE SortedDates(_)
SortedDates(dates) ==
    IF dates = {} THEN <<>>
    ELSE LET first == CHOOSE d \in dates : \A e \in dates : d <= e
         IN  <<first>> \o SortedDates(dates \ {first})

\* the grouping loop and the response list: one entry per slot_date, in date
\* order, each with its slots in store order; the key is the date of the UTC
\* start, the times are rendered in the display timezone
GroupByDate(filtered_slots, display_timezone) ==
    LET keys == SortedDates({UtcDate(filtered_slots[i].slot_start_time) :
                                i \in 1..Len(filtered_slots)})
    IN  [n \in 1..Len(keys) |->
            LET of_date == SelectSeq(filtered_slots,
                                     LAMBDA slot : UtcDate(slot.slot_start_time) = keys[n])
            IN  [date |-> keys[n],
                 slots |-> [i \in 1..Len(of_date) |->
                               ListSlotInfo(of_date[i], display_timezone)]]]

CountStatus(filtered_slots, status) ==
    Len(SelectSeq(filtered_slots, LAMBDA s : s.status = status))

\* the response of get_provider_availability_slots
ListOutcome(provider_id, start_date, end_date, status, appointment_type, timezone) ==
    LET all_slots == get_appointment_slots(APPOINTMENT_SLOTS, provider_id, None, None)
        filtered_slots == SelectSeq(all_slots,
                              LAMBDA slot : ListKeeps(slot, start_date, end_date,
                                                      status, appointment_type))
        display_timezone == IF Truthy(timezone) THEN timezone ELSE "America/New_York"
    IN  IF filtered_slots # <<>> /\ display_timezone \notin KnownZones
        THEN [op |-> "list", success |-> FALSE,
              message |-> "Failed to retrieve availability", status_code |-> 500]
        ELSE [op |-> "list", success |-> TRUE,
              data |-> [provider_id |-> provider_id,
                        availability_summary |->
                            [total_slots |-> Len(filtered_slots),
                             available_slots |-> CountStatus(filtered_slots, "available"),
                             booked_slots |-> CountStatus(filtered_slots, "booked"),
                             cancelled_slots |-> CountStatus(filtered_slots, "cancelled")],
                        availability |-> GroupByDate(filtered_slots, display_timezone)]]

get_provider_availability_slots(provider_id, start_date, end_date, status, appointment_type, timezone) ==
    /\ response' = ListOutcome(provider_id, start_date, end_date, status,
                               appointment_type, timezone)
    /\ UNCHANGED <<PROVIDER_AVAILABILITY, APPOINTMENT_SLOTS, uuid_counter, utcnow>>
    /\ UNCHANGED <<fnVars, taskVars, accountVars>>

(***************************************************************************)
(* Requests                                                                *)
(***************************************************************************)
\* the clock readings a behaviour may use
MaxClock == 2

ProviderIds == {"provider-123", "provider-456"}

ClinicLocation == [type |-> "clinic", address |-> "123 Main St", room_number |-> None]

Fee(base_fee) == [base_fee |-> base_fee, insurance_accepted |-> TRUE, currency |-> "USD"]

\* a ProviderAvailabilityCreate with the defaults of the model class
BaseCreate ==
    [provider_id |-> "provider-123",
     date |-> SeedDate,
     start_time |-> strftime_HM(9, 0),
     end_time |-> strftime_HM(10, 0),
     timezone |-> "America/New_York",
     is_recurring |-> FALSE,
     recurrence_pattern |-> None,
     recurrence_end_date |-> NoneNum,
     slot_duration |-> 30,
     break_duration |-> 0,
     status |-> "available",
     max_appointments_per_slot |-> 1,
     appointment_type |-> "consultation",
     location |-> ClinicLocation,
     pricing |-> NoneDict,
     notes |-> None,
     special_requirements |-> <<>>]

\* provider and window (New York time, on the seed day): 09:00-10:00 covers
\* the seed slots of provider-123 (14:00-15:00 UTC), 10:00-11:00 touches them
\* the window of provider-456 is a blocked telemedicine window
CreateWindows ==
    {<<"provider-123", strftime_HM(9, 0), strftime_HM(10, 0), "available", "consultation">>,
     <<"provider-123", strftime_HM(10, 0), strftime_HM(11, 0), "available", "consultation">>,
     <<"provider-456", strftime_HM(9, 0), strftime_HM(10, 0), "blocked", "telemedicine">>}

\* single creates cut two 30-minute slots; the recurring one repeats the
\* window over the seed slots on the next day with one 60-minute slot, two
\* appointments each, priced
CreateRequests ==
    {[BaseCreate EXCEPT !.provider_id = w[1], !.start_time = w[2], !.end_time = w[3],
                        !.status = w[4], !.appointment_type = w[5]] :
        w \in CreateWindows}
    \cup {[BaseCreate EXCEPT !.is_recurring = TRUE,
                             !.recurrence_pattern = "daily",
                             !.recurrence_end_date = SeedDate + 1,
                             !.slot_duration = 60,
                             !.max_appointments_per_slot = 2,
                             !.pricing = Fee(150)]}
    \cup {[BaseCreate EXCEPT !.start_time = <<"9", ":", "0", "0">>],
          [BaseCreate EXCEPT !.timezone = "Mars/Phobos"],
          [BaseCreate EXCEPT !.timezone = "Mars/Phobos", !.is_recurring = TRUE,
                             !.recurrence_pattern = "weekly",
                             !.recurrence_end_date = SeedDate + 7],
          [BaseCreate EXCEPT !.is_recurring = TRUE, !.recurrence_pattern = "daily"]}

\* a ProviderAvailabilityUpdate with no field set
NoPatch ==
    [start_time |-> NoneSeq, end_time |-> NoneSeq, status |-> None, notes |-> None,
     pricing |-> NoneDict, special_requirements |-> NoneSeq]

\* a booking, a cancellation with a fee and an empty note, and a new start
\* time (the UTC start of slot-123) with a note
UpdatePatches ==
    {[NoPatch EXCEPT !.status = "booked"],
     [NoPatch EXCEPT !.status = "cancelled", !.pricing = Fee(50), !.notes = ""],
     [NoPatch EXCEPT !.start_time = strftime_HM(14, 0), !.notes = "moved"]}

StoredSlotIds == {APPOINTMENT_SLOTS[i].id : i \in 1..Len(APPOINTMENT_SLOTS)}

SlotIds == StoredSlotIds \cup {"no-such-slot"}

\* an AvailabilitySearchRequest with the defaults of the model class
BaseSearch ==
    [date |-> NoneNum, start_date |-> NoneNum, end_date |-> NoneNum,
     specialization |-> None, location |-> None, appointment_type |-> None,
     insurance_accepted |-> NoneSeq, max_price |-> NoneNum, timezone |-> None,
     available_only |-> TRUE]

SearchRequests ==
    {[BaseSearch EXCEPT !.max_price = 100],
     [BaseSearch EXCEPT !.available_only = FALSE, !.date = SeedDate,
                        !.appointment_type = "consultation", !.location = "New York",
                        !.insurance_accepted = <<TRUE>>, !.timezone = "Asia/Kolkata"],
     [BaseSearch EXCEPT !.start_date = SeedDate + 1, !.end_date = SeedDate + 1,
                        !.timezone = "Mars/Phobos"]}

\* the arguments of a List call: the seed day shown in the easternmost zone,
\* two days of available consultations in the default zone, the booked slots
\* of the other provider on the seed day in a zone pytz does not know
ListRequests ==
    {[provider_id |-> "provider-123", start_date |-> SeedDate, end_date |-> SeedDate,
      status |-> None, appointment_type |-> None, timezone |-> "Pacific/Kiritimati"],
     [provider_id |-> "provider-123", start_date |-> SeedDate, end_date |-> SeedDate + 1,
      status |-> "available", appointment_type |-> "consultation", timezone |-> None],
     [provider_id |-> "provider-456", start_date |-> SeedDate, end_date |-> SeedDate,
      status |-> "booked", appointment_type |-> None, timezone |-> "Mars/Phobos"]}

(***************************************************************************)
(* The service as a state machine over the store                           *)
(***************************************************************************)
Create == \E availability \in CreateRequests :
    /\ utcnow <= MaxClock
    /\ create_provider_availability(availability)

UpdateSlot == \E slot_id \in SlotIds, updates \in UpdatePatches :
    /\ utcnow <= MaxClock
    /\ update_availability_slot(slot_id, updates)

DeleteSlot == \E slot_id \in SlotIds, delete_recurring \in BOOLEAN :
    delete_availability_slot(slot_id, delete_recurring)

Search == \E search_request \in SearchRequests :
    search_availability_slots(search_request)

List == \E r \in ListRequests :
    get_provider_availability_slots(r.provider_id, r.start_date, r.end_date, r.status,
                                    r.appointment_type, r.timezone)

ClearAllData == clear_all_data

Next == Create \/ UpdateSlot \/ DeleteSlot \/ List \/ Search \/ ClearAllData

Spec == Init /\ [][Next]_vars

(***************************************************************************)
(* The pure components, applied to inputs drawn from bounded sets          *)
(***************************************************************************)
\* candidate time strings, one or two hour digits; TimePattern keeps the
\* ones a create request accepts
CandidateTimes ==
    {<<a, b, ":", c, d>> : a \in {"0", "1", "2"}, b \in DigitChars,
                           c \in {"0", "3", "5", "6"}, d \in {"0", "9"}}
    \cup {<<b, ":", c, d>> : b \in DigitChars, c \in {"0", "3", "5", "6"}, d \in {"0", "9"}}

PatternTimes == {t \in CandidateTimes : TimePattern(t)}

\* the seed day, the day before the US spring-forward and that day itself
ProbeDates == {SeedDate, DstDay - 1, DstDay}

RoundTripCalls ==
    {[fn |-> "round_trip", t |-> t, d |-> d, tz |-> tz] :
        t \in PatternTimes, d \in ProbeDates, tz \in KnownZones}

\* window edges of the slot generator probes: around the spring-forward gap
\* (01:00, 02:30, 03:00) and in office hours
WindowTimes ==
    {strftime_HM(1, 0), strftime_HM(2, 30), strftime_HM(3, 0),
     strftime_HM(9, 0), strftime_HM(9, 30), strftime_HM(10, 15), strftime_HM(11, 0)}

\* the windows probed: both edges around the gap, or both in office hours
WindowPairs ==
    {p \in WindowTimes \X WindowTimes :
        StrLess(p[1], strftime_HM(4, 0)) = StrLess(p[2], strftime_HM(4, 0))}

SlotDurations == {15, 30, 45, 60}

BreakDurations == {0, 10, 15}

GenerateCalls ==
    {[fn |-> "generate_slots_from_availability",
      availability |->
          ProviderAvailabilityDB([BaseCreate EXCEPT !.start_time = w[1], !.end_time = w[2],
                                                    !.timezone = tz, !.slot_duration = sd,
                                                    !.break_duration = bd],
                                 d, "availability-probe", 1)] :
        w \in WindowPairs, tz \in KnownZones \cup {"Mars/Phobos"},
        sd \in SlotDurations, bd \in BreakDurations, d \in {SeedDate, DstDay}}

\* 2024-01-29, 2024-01-31 and the seed day 2024-02-15
RecurStarts == {28, 30, SeedDate}

\* the longest recurrence the probes ask for, in days
MaxSpan == 62

RecurSpans == 0..MaxSpan

\* the longest daily recurrence the probes ask for, in days
MaxDailySpan == 10

RecurringCalls ==
    {[fn |-> "generate_recurring_slots",
      availability |-> [BaseCreate EXCEPT !.date = q[1], !.is_recurring = TRUE,
                                          !.recurrence_pattern = q[3],
                                          !.recurrence_end_date = q[1] + q[2],
                                          !.timezone = tz,
                                          !.pricing = Fee(150)]] :
        q \in {x \in RecurStarts \X RecurSpans \X {"daily", "weekly", "monthly"} :
                  x[3] = "daily" => x[2] <= MaxDailySpan},
        tz \in {"America/New_York"}}
    \cup {[fn |-> "generate_recurring_slots",
           availability |-> [BaseCreate EXCEPT !.is_recurring = TRUE,
                                               !.recurrence_pattern = pat,
                                               !.recurrence_end_date = e,
                                               !.timezone = tz]] :
            pat \in {None, "daily", "yearly"}, e \in {NoneNum, SeedDate + 1},
            tz \in {"UTC", "Mars/Phobos"}}

\* the instants the intervals of the conflict probes are drawn from
MaxInstant == 3

ConflictCalls ==
    {[fn |-> "check_slot_conflicts", a |-> a, b |-> b] :
        a \in (0..MaxInstant) \X (0..MaxInstant), b \in (0..MaxInstant) \X (0..MaxInstant)}

\* the most slots a probed store holds
MaxStored == 2

ProbeSlotIds == [k \in 1..3 |-> "slot-" \o ToString(k)]

\* two touching intervals and one lying across both
ProbeIntervals == {<<0, 2>>, <<2, 4>>, <<1, 3>>}

ProbeSlots(k) ==
    {[SeedSlot(ProbeSlotIds[k], iv[1]) EXCEPT !.slot_end_time = iv[2],
                                              !.provider_id = p, !.status = st] :
        iv \in ProbeIntervals, p \in ProviderIds, st \in {"available", "cancelled"}}

\* stores of up to MaxStored slots, the k-th with the k-th id
ProbeStores ==
    UNION {{st \in [1..n -> UNION {ProbeSlots(k) : k \in 1..n}] :
               \A k \in 1..n : st[k] \in ProbeSlots(k)} : n \in 0..MaxStored}

StoreConflictCalls ==
    {[fn |-> "check_slot_conflicts_store", store |-> st, provider_id |-> p,
      start_time |-> iv[1], end_time |-> iv[2], exclude_slot_id |-> x] :
        st \in ProbeStores, p \in ProviderIds,
        iv \in ProbeIntervals \cup {<<0, 4>>},
        x \in {None, "slot-1", "slot-2"}}

\* create requests as they arrive: recurring or not, with and without a
\* pattern and an end date, the end date on or after the start date, the
\* window in order or reversed
ValidateCalls ==
    {[fn |-> "ProviderAvailabilityCreate",
      data |-> [BaseCreate EXCEPT !.start_time = w[1], !.end_time = w[2],
                                  !.is_recurring = r,
                                  !.recurrence_pattern = pat,
                                  !.recurrence_end_date = e,
                                  !.slot_duration = sd]] :
        w \in {<<strftime_HM(9, 0), strftime_HM(10, 0)>>,
               <<strftime_HM(10, 0), strftime_HM(9, 0)>>},
        r \in BOOLEAN, pat \in {None, "daily", "weekly", "yearly"},
        e \in {NoneNum, SeedDate, SeedDate + 1}, sd \in {10, 30}}

InitFn ==
    /\ PROVIDER_AVAILABILITY = <<SeedAvailability>>
    /\ APPOINTMENT_SLOTS = SeedSlots
    /\ response = [op |-> "none"]
    /\ uuid_counter = 1
    /\ utcnow = 1
    /\ args \in RoundTripCalls \cup GenerateCalls \cup RecurringCalls \cup ConflictCalls
                \cup StoreConflictCalls \cup ValidateCalls
    /\ ret = NoCall
    /\ tasks = NoTasks
    /\ PATIENTS = SeedPatients
    /\ PROVIDERS = SeedProviders
    /\ issued_tokens = {}

\* fromUtc(toUtc(t, d, tz), tz)
RoundTrip ==
    /\ args.fn = "round_trip" /\ ret = NoCall
    /\ LET utc_dt == convert_to_utc(args.t, args.d, args.tz)
       IN  ret' = [fn |-> "round_trip", utc_dt |-> utc_dt,
                   local |-> IF utc_dt.exc THEN Raise
                             ELSE convert_from_utc(utc_dt.val, args.tz)]
    /\ UNCHANGED <<storeVars, args, taskVars, accountVars>>

GenerateSlots ==
    /\ args.fn = "generate_slots_from_availability" /\ ret = NoCall
    /\ ret' = [fn |-> args.fn,
               result |-> generate_slots_from_availability(args.availability, uuid_counter, utcnow)]
    /\ UNCHANGED <<storeVars, args, taskVars, accountVars>>

GenerateRecurring ==
    /\ args.fn = "generate_recurring_slots" /\ ret = NoCall
    /\ ret' = [fn |-> args.fn,
               result |-> generate_recurring_slots(args.availability, uuid_counter, utcnow)]
    /\ UNCHANGED <<storeVars, args, taskVars, accountVars>>

\* a store holding one slot of provider-123 over the interval iv
StoreOf(iv) == <<[SeedSlot("slot-123", iv[1]) EXCEPT !.slot_end_time = iv[2]]>>

\* candidate a against stored b, and candidate b against stored a
CheckConflicts ==
    /\ args.fn = "check_slot_conflicts" /\ ret = NoCall
    /\ ret' = [fn |-> args.fn,
               a_on_b |-> check_slot_conflicts(StoreOf(args.b), "provider-123",
                                               args.a[1], args.a[2], None),
               b_on_a |-> check_slot_conflicts(StoreOf(args.a), "provider-123",
                                               args.b[1], args.b[2], None)]
    /\ UNCHANGED <<storeVars, args, taskVars, accountVars>>

\* hasConflict(provider, start, end, excludeId) against a given store
CheckStoreConflicts ==
    /\ args.fn = "check_slot_conflicts_store" /\ ret = NoCall
    /\ ret' = [fn |-> args.fn,
               result |-> check_slot_conflicts(args.store, args.provider_id, args.start_time,
                                               args.end_time, args.exclude_slot_id)]
    /\ UNCHANGED <<storeVars, args, taskVars, accountVars>>

\* a create request is validated
ValidateCreate ==
    /\ args.fn = "ProviderAvailabilityCreate" /\ ret = NoCall
    /\ ret' = [fn |-> args.fn, result |-> ProviderAvailabilityCreate(args.data)]
    /\ UNCHANGED <<storeVars, args, taskVars, accountVars>>

NextFn == RoundTrip \/ GenerateSlots \/ GenerateRecurring \/ CheckConflicts
          \/ CheckStoreConflicts \/ ValidateCreate

SpecFn == InitFn /\ [][NextFn]_vars

(***************************************************************************)
(* Concurrent create calls on the event loop                               *)
(*                                                                         *)
(* create_provider_availability is a coroutine; the event loop runs one    *)
(* coroutine at a time and switches only where the running one awaits or   *)
(* returns.  A call is split at the end of its conflict check so that a    *)
(* switch between check and commit can be told from a handler that runs    *)
(* through.                                                                *)
(***************************************************************************)
\* the number of create calls in flight
MaxTasks == 2

TaskIds == 1..MaxTasks

\* non-recurring windows on the seed day, New York time: three overlapping
\* or touching ones of provider-456, one that its 30-minute slots do not
\* fill, a free one of provider-123 and one over the seed slots
ConcRequests ==
    {[BaseCreate EXCEPT !.provider_id = w[1], !.start_time = w[2], !.end_time = w[3]] :
        w \in {<<"provider-456", strftime_HM(9, 0), strftime_HM(10, 0)>>,
               <<"provider-456", strftime_HM(9, 30), strftime_HM(10, 30)>>,
               <<"provider-456", strftime_HM(10, 0), strftime_HM(11, 0)>>,
               <<"provider-456", strftime_HM(9, 0), strftime_HM(9, 50)>>,
               <<"provider-123", strftime_HM(10, 0), strftime_HM(11, 0)>>,
               <<"provider-123", strftime_HM(9, 0), strftime_HM(10, 0)>>}}

\* a handler that awaits the store between its conflict check and its commit
AwaitPoints_AfterCheck == {"checked"}

\* the positions inside create_provider_availability at which the coroutine
\* awaits: its body calls only plain functions
AwaitPoints == {}

\* the event loop gives the call a turn: no other call is inside its handler
\* at a position that is not an await
CanRun(t) ==
    \A u \in TaskIds \ {t} : tasks[u].pc \in {"pending", "done"} \cup AwaitPoints

\* the handler up to the end of the conflict check
CheckPhase(availability) ==
    IF StrGeq(availability.start_time, availability.end_time)
    THEN [passed |-> FALSE, out |-> CreateFailure("End time must be after start time", 400)]
    ELSE
    LET start_dt == convert_to_utc(availability.start_time, availability.date, availability.timezone)
        end_dt == convert_to_utc(availability.end_time, availability.date, availability.timezone)
    IN
    IF ~availability.is_recurring /\ (start_dt.exc \/ end_dt.exc)
    THEN [passed |-> FALSE, out |-> CreateFailure("Failed to create availability slots", 500)]
    ELSE IF ~availability.is_recurring
            /\ check_slot_conflicts(APPOINTMENT_SLOTS, availability.provider_id,
                                    start_dt.val, end_dt.val, None)
    THEN [passed |-> FALSE,
          out |-> CreateFailure("Time slot conflicts with existing availability", 409)]
    ELSE [passed |-> TRUE, out |-> CreateFailure("", 0)]

\* the handler from there on: generate, store, answer
CommitPhase(availability) ==
    IF availability.is_recurring
    THEN LET recurring_results == generate_recurring_slots(availability, uuid_counter, utcnow)
         IN  IF recurring_results.exc \/ availability.recurrence_end_date = NoneNum
             THEN CreateFailure("Failed to create availability slots", 500)
             ELSE CreateSuccess(recurring_results.val, "multiple",
                                [start |-> availability.date,
                                 end |-> availability.recurrence_end_date])
    ELSE LET availability_db == ProviderAvailabilityDB(availability, availability.date,
                                                       uuid4(uuid_counter), utcnow)
             slots == generate_slots_from_availability(availability_db, uuid_counter + 1, utcnow)
         IN  CreateSuccess(<<[availability |-> availability_db, slots |-> slots.val]>>,
                           availability_db.id,
                           [start |-> availability.date, end |-> availability.date])

InitConc ==
    /\ PROVIDER_AVAILABILITY = <<SeedAvailability>>
    /\ APPOINTMENT_SLOTS = SeedSlots
    /\ response = [op |-> "none"]
    /\ uuid_counter = 1
    /\ utcnow = 1
    /\ args = NoCall
    /\ ret = NoCall
    /\ tasks \in [TaskIds -> {[availability |-> a, pc |-> "pending", response |-> NoCall] :
                                 a \in ConcRequests}]
    /\ PATIENTS = SeedPatients
    /\ PROVIDERS = SeedProviders
    /\ issued_tokens = {}

TaskCheck(t) ==
    /\ tasks[t].pc = "pending"
    /\ CanRun(t)
    /\ LET chk == CheckPhase(tasks[t].availability)
       IN  IF chk.passed
           THEN /\ tasks' = [tasks EXCEPT ![t].pc = "checked"]
                /\ UNCHANGED response
           ELSE /\ tasks' = [tasks EXCEPT ![t].pc = "done", ![t].response = chk.out.response]
                /\ response' = chk.out.response
    /\ UNCHANGED <<PROVIDER_AVAILABILITY, APPOINTMENT_SLOTS, uuid_counter, utcnow>>
    /\ UNCHANGED <<fnVars, accountVars>>

TaskCommit(t) ==
    /\ tasks[t].pc = "checked"
    /\ CanRun(t)
    /\ LET out == CommitPhase(tasks[t].availability)
       IN  /\ PROVIDER_AVAILABILITY' = out.pa
           /\ APPOINTMENT_SLOTS' = out.slots
           /\ uuid_counter' = out.uuid
           /\ utcnow' = out.now
           /\ response' = out.response
           /\ tasks' = [tasks EXCEPT ![t].pc = "done", ![t].response = out.response]
    /\ UNCHANGED <<fnVars, accountVars>>

NextConc == \E t \in TaskIds : TaskCheck(t) \/ TaskCommit(t)

SpecConc == InitConc /\ [][NextConc]_vars

(***************************************************************************)
(* JSON web tokens (utils/jwtUtils.py); durations in minutes               *)
(***************************************************************************)
JWT_SECRET == "supersecretkey"

ACCESS_TOKEN_EXPIRES == 3600 \div 60

REFRESH_TOKEN_EXPIRES == 604800 \div 60

PATIENT_ACCESS_TOKEN_EXPIRES == 1800 \div 60

\* jwt.encode: the payload with its expiry and issue instants, signed
create_jwt_token(payload, expires_in, now) ==
    [payload |-> payload, exp |-> now + expires_in, iat |-> now, key |-> JWT_SECRET]

\* jwt.decode: raises on a foreign signature and on an expired token
decode_jwt_token(token, now) ==
    IF token.key # JWT_SECRET \/ token.exp <= now
    THEN Raise
    ELSE Return(token)

(***************************************************************************)
(* Patient validation (services/patientValidationService.py)               *)
(***************************************************************************)
\* the email strings the requests are drawn from: the seed patients', two
\* unregistered ones, one that differs from a seed's only in case, one with
\* surrounding blanks and one without "@"
WellFormedEmails ==
    {"jane.smith@email.com", "michael.johnson@email.com", "new.patient@email.com",
     "Jane.Smith@email.com", "nobody@email.com"}

CandidateEmails == WellFormedEmails \cup {" jane.smith@email.com ", "invalid-email", ""}

\* str.strip() on the candidate emails and passwords
strip(s) ==
    CASE s = " jane.smith@email.com " -> "jane.smith@email.com"
      [] s = "   " -> ""
      [] OTHER -> s

\* email_validator.validate_email accepts the address
is_valid_email(email) == email \in WellFormedEmails

\* re.match(r'^\+?[1-9]\d{7,14}$', phone)
is_valid_phone(phone) ==
    LET body == IF phone # <<>> /\ Head(phone) = "+" THEN Tail(phone) ELSE phone
    IN  /\ Len(body) >= 8
        /\ Len(body) <= 15
        /\ body[1] \in DigitChars \ {"0"}
        /\ \A i \in 2..Len(body) : body[i] \in DigitChars

\* the passwords the requests are drawn from; the strength pattern (8+
\* characters with upper case, lower case, digit and special character)
\* accepts the first two
StrongPasswords == {SeedPassword, "WrongPassword123!"}

CandidatePasswords == StrongPasswords \cup {"weak", "   ", ""}

is_valid_password(password) == password \in StrongPasswords

\* the error of one field once the required-fields loop has run: a missing
\* value replaces whatever the field's own check reported
RequiredOr(value, missing, error) == IF value = missing THEN "is required" ELSE error

\* a duplicate test that finds no phone number registered
DuplicatePhone_Unchecked(patient_data, patients) == FALSE

\* any(p.get('phone_number') == patient_data.get('phone_number') for p in PATIENTS)
DuplicatePhone(patient_data, patients) ==
    \E i \in 1..Len(patients) : patients[i].phone_number = patient_data.phone_number

\* any(p.get('email') == patient_data.get('email') for p in PATIENTS)
DuplicateEmail(patient_data, patients) ==
    \E i \in 1..Len(patients) : patients[i].email = patient_data.email

\* validate_patient_registration: the error message per field, None where
\* the field passed (date of birth, gender and address hold for every
\* PatientCreate and are left out)
validate_patient_registration(patient_data, patients) ==
    LET email_error ==
            IF ~is_valid_email(patient_data.email) THEN "Invalid email format"
            ELSE IF DuplicateEmail(patient_data, patients)
            THEN "Email is already registered"
            ELSE None
        phone_error ==
            IF ~is_valid_phone(patient_data.phone_number) THEN "Invalid phone number format"
            ELSE IF DuplicatePhone(patient_data, patients)
            THEN "Phone number is already registered"
            ELSE None
        password_error ==
            IF ~is_valid_password(patient_data.password) THEN "Password too weak" ELSE None
        confirm_error ==
            IF patient_data.password # patient_data.confirm_password
            THEN "Passwords do not match" ELSE None
    IN  [email |-> RequiredOr(patient_data.email, "", email_error),
         phone_number |-> RequiredOr(patient_data.phone_number, <<>>, phone_error),
         password |-> RequiredOr(patient_data.password, "", password_error),
         confirm_password |-> RequiredOr(patient_data.confirm_password, "", confirm_error)]

\* "errors if errors else None": no field reported an error
NoErrors(errors) == \A f \in DOMAIN errors : errors[f] = None

\* validate_patient_login
validate_patient_login(email, password) ==
    [email |-> IF email = "" \/ strip(email) = "" THEN "Email is required"
               ELSE IF ~is_valid_email(strip(email)) THEN "Invalid email format"
               ELSE None,
     password |-> IF password = "" THEN "Password is required"
                  ELSE IF strip(password) = "" THEN "Password cannot be empty"
                  ELSE None]

(***************************************************************************)
(* Patient Service (services/patientService.py)                            *)
(***************************************************************************)
RegisterOutcome(patient) ==
    LET errors == validate_patient_registration(patient, PATIENTS)
    IN  IF ~NoErrors(errors)
        THEN [patients |-> PATIENTS, uuid |-> uuid_counter, now |-> utcnow,
              response |-> [op |-> "register", success |-> FALSE,
                            message |-> "Validation failed", errors |-> errors,
                            status_code |-> 422]]
        ELSE LET patient_id == uuid4(uuid_counter)
                 patient_record ==
                     [id |-> patient_id,
                      first_name |-> patient.first_name,
                      last_name |-> patient.last_name,
                      email |-> patient.email,
                      phone_number |-> patient.phone_number,
                      password_hash |-> hash_password(patient.password),
                      email_verified |-> FALSE,
                      phone_verified |-> FALSE,
                      is_active |-> TRUE,
                      created_at |-> utcnow,
                      updated_at |-> utcnow]
             IN  [patients |-> Append(PATIENTS, patient_record),
                  uuid |-> uuid_counter + 1, now |-> utcnow + 1,
                  response |-> [op |-> "register", success |-> TRUE,
                                message |-> "Patient registered successfully. Verification email sent.",
                                data |-> [patient_id |-> patient_id,
                                          email |-> patient.email,
                                          phone_number |-> patient.phone_number,
                                          email_verified |-> FALSE,
                                          phone_verified |-> FALSE]]]

register_patient(patient) ==
    LET out == RegisterOutcome(patient)
    IN  /\ PATIENTS' = out.patients
        /\ uuid_counter' = out.uuid
        /\ utcnow' = out.now
        /\ response' = out.response
        /\ args' = [fn |-> "register_patient", patient |-> patient]
        /\ UNCHANGED <<PROVIDER_AVAILABILITY, APPOINTMENT_SLOTS, ret, tasks, PROVIDERS,
                       issued_tokens>>

\* next((p for p in PATIENTS if p.get('email') == email), None): the position
\* of the first patient with the email, 0 for None
FindPatient(patients, email) ==
    IF \E i \in 1..Len(patients) : patients[i].email = email
    THEN CHOOSE i \in 1..Len(patients) :
            /\ patients[i].email = email
            /\ \A j \in 1..(i - 1) : patients[j].email # email
    ELSE 0

LoginFailure(message, status_code) ==
    [op |-> "login", success |-> FALSE, message |-> message, status_code |-> status_code]

\* an answer to an unknown email that says so
PatientNotFound_Revealed == LoginFailure("Patient not found", 404)

\* the answer when no patient has the email
PatientNotFound == LoginFailure("Invalid email or password", 401)

LoginOutcome(login_data) ==
    LET email == strip(login_data.email)
        password == login_data.password
        validation_errors == validate_patient_login(email, password)
        at == FindPatient(PATIENTS, email)
    IN  IF ~NoErrors(validation_errors)
        THEN [op |-> "login", success |-> FALSE, message |-> "Validation failed",
              errors |-> validation_errors, status_code |-> 422]
        ELSE IF at = 0
        THEN PatientNotFound
        ELSE IF ~PATIENTS[at].is_active
        THEN LoginFailure("Account is deactivated", 401)
        ELSE IF ~verify_password(password, PATIENTS[at].password_hash)
        THEN LoginFailure("Invalid email or password", 401)
        ELSE [op |-> "login", success |-> TRUE, message |-> "Login successful",
              status_code |-> 200,
              data |-> [access_token |->
                            create_jwt_token([patient_id |-> PATIENTS[at].id,
                                              email |-> PATIENTS[at].email,
                                              role |-> "patient"],
                                             PATIENT_ACCESS_TOKEN_EXPIRES, utcnow),
                        expires_in |-> PATIENT_ACCESS_TOKEN_EXPIRES,
                        token_type |-> "Bearer",
                        patient |-> [patient_id |-> PATIENTS[at].id,
                                     email |-> PATIENTS[at].email,
                                     first_name |-> PATIENTS[at].first_name,
                                     last_name |-> PATIENTS[at].last_name,
                                     email_verified |-> PATIENTS[at].email_verified,
                                     phone_verified |-> PATIENTS[at].phone_verified,
                                     is_active |-> PATIENTS[at].is_active,
                                     created_at |-> PATIENTS[at].created_at,
                                     updated_at |-> PATIENTS[at].updated_at]]]

login_patient(login_data) ==
    /\ response' = LoginOutcome(login_data)
    /\ args' = [fn |-> "login_patient", login_data |-> login_data]
    /\ UNCHANGED <<PROVIDER_AVAILABILITY, APPOINTMENT_SLOTS, uuid_counter, utcnow, ret, tasks,
                   accountVars>>

\* the registrations: PatientCreate values (its validators have accepted
\* them) with an email and a phone number that a seed patient has, that no
\* patient has, or that differ from a seed's in case or in the leading "+"
MaxPatients == 4

RegisterEmails == {"jane.smith@email.com", "new.patient@email.com", "Jane.Smith@email.com"}

RegisterPhones ==
    {PhoneNumber(TRUE, <<1, 2, 3, 4, 5, 6, 7, 8, 9, 0>>),
     PhoneNumber(TRUE, <<1, 9, 8, 7, 6, 5, 4, 3, 2, 1>>),
     PhoneNumber(FALSE, <<1, 2, 3, 4, 5, 6, 7, 8, 9, 0>>)}

RegisterRequests ==
    {[first_name |-> "Pat", last_name |-> "Doe", email |-> e, phone_number |-> ph,
      password |-> SeedPassword, confirm_password |-> SeedPassword] :
        e \in RegisterEmails, ph \in RegisterPhones}

LoginRequests ==
    {[email |-> e, password |-> pw] :
        e \in {"jane.smith@email.com", "new.patient@email.com", "nobody@email.com",
               " jane.smith@email.com ", "invalid-email", ""},
        pw \in {SeedPassword, "WrongPassword123!", "   ", ""}}

RegisterPatient == \E patient \in RegisterRequests :
    /\ Len(PATIENTS) < MaxPatients
    /\ register_patient(patient)

LoginPatient == \E login_data \in LoginRequests : login_patient(login_data)

NextPatient == RegisterPatient \/ LoginPatient

SpecPatient == Init /\ [][NextPatient]_vars

(***************************************************************************)
(* Provider authentication (services/authService.py, tokenService.py,      *)
(* controllers/authController.py); utcnow counts minutes                   *)
(***************************************************************************)
\* next((p for p in PROVIDERS if p['email'] == email), None): the position of
\* the first provider with the email, 0 for None
FindProviderByEmail(providers, email) ==
    IF \E i \in 1..Len(providers) : providers[i].email = email
    THEN CHOOSE i \in 1..Len(providers) :
            /\ providers[i].email = email
            /\ \A j \in 1..(i - 1) : providers[j].email # email
    ELSE 0

FindProviderById(providers, id) ==
    IF \E i \in 1..Len(providers) : providers[i].id = id
    THEN CHOOSE i \in 1..Len(providers) :
            /\ providers[i].id = id
            /\ \A j \in 1..(i - 1) : providers[j].id # id
    ELSE 0

\* failed attempts at which the account is locked, and for how long
LockThreshold == 5

LockMinutes == 30

\* a lock that needs one failed attempt more than the threshold
ReachesThreshold_Late(failed) == failed > LockThreshold

\* the test that locks the account after a failed attempt
ReachesThreshold(failed) == failed >= LockThreshold

AuthFailure(op, message, error_code, status_code) ==
    [op |-> op, success |-> FALSE, message |-> message, error_code |-> error_code,
     status_code |-> status_code]

\* the JWT payload of a provider
ProviderPayload(provider) ==
    [provider_id |-> provider.id,
     email |-> provider.email,
     role |-> "provider",
     specialization |-> provider.specialization,
     verification_status |-> provider.verification_status]

\* provider.get('locked_until') and provider['locked_until'] > datetime.utcnow()
LockedOut(provider, now) ==
    /\ provider.locked_until # NoneNum
    /\ provider.locked_until > now

ProviderLoginOutcome(body) ==
    LET unchanged(resp) == [providers |-> PROVIDERS, tokens |-> issued_tokens,
                            response |-> resp]
        at == FindProviderByEmail(PROVIDERS, body.email)
        provider == PROVIDERS[at]
    IN  IF body.email = "" \/ body.password = ""
        THEN unchanged(AuthFailure("provider_login", "Email and password required",
                                   "INVALID_REQUEST", 400))
        ELSE IF at = 0
        THEN unchanged(AuthFailure("provider_login", "Invalid credentials",
                                   "INVALID_CREDENTIALS", 401))
        ELSE IF LockedOut(provider, utcnow)
        THEN unchanged(AuthFailure("provider_login", "Account locked due to failed attempts",
                                   "ACCOUNT_LOCKED", 423))
        ELSE IF ~verify_password(body.password, provider.password_hash)
        THEN LET failed == provider.failed_login_attempts + 1
             IN  [providers |->
                      [PROVIDERS EXCEPT
                          ![at].failed_login_attempts = failed,
                          ![at].locked_until = IF ReachesThreshold(failed)
                                               THEN utcnow + LockMinutes
                                               ELSE provider.locked_until],
                  tokens |-> issued_tokens,
                  response |-> AuthFailure("provider_login", "Invalid credentials",
                                           "INVALID_CREDENTIALS", 401)]
        ELSE IF ~provider.is_active \/ provider.verification_status # "verified"
        THEN unchanged(AuthFailure("provider_login", "Account not verified or inactive",
                                   "ACCOUNT_NOT_VERIFIED", 403))
        ELSE LET access_token == create_jwt_token(ProviderPayload(provider),
                                                  ACCESS_TOKEN_EXPIRES, utcnow)
                 refresh_token == create_jwt_token(ProviderPayload(provider),
                                                   REFRESH_TOKEN_EXPIRES, utcnow)
             IN  [providers |->
                      [PROVIDERS EXCEPT
                          ![at].failed_login_attempts = 0,
                          ![at].locked_until = NoneNum,
                          ![at].last_login = utcnow,
                          ![at].login_count = provider.login_count + 1],
                  tokens |-> issued_tokens \cup {refresh_token},
                  response |-> [op |-> "provider_login", success |-> TRUE,
                                message |-> "Login successful", status_code |-> 200,
                                data |-> [access_token |-> access_token,
                                          refresh_token |-> refresh_token,
                                          expires_in |-> ACCESS_TOKEN_EXPIRES,
                                          token_type |-> "Bearer",
                                          provider |-> [id |-> provider.id,
                                                        email |-> provider.email,
                                                        is_active |-> provider.is_active]]]]

login_provider(body) ==
    LET out == ProviderLoginOutcome(body)
    IN  /\ PROVIDERS' = out.providers
        /\ issued_tokens' = out.tokens
        /\ response' = out.response
        /\ args' = [fn |-> "login_provider", body |-> body]
        /\ UNCHANGED <<PROVIDER_AVAILABILITY, APPOINTMENT_SLOTS, uuid_counter, utcnow, ret,
                       tasks, PATIENTS>>

\* the request without a token
NoToken == [key |-> ""]

\* refresh_token: the token is decoded and its provider looked up; no list
\* of revoked tokens is consulted
RefreshOutcome(body) ==
    LET unchanged(resp) == [tokens |-> issued_tokens, response |-> resp]
        payload == decode_jwt_token(body.refresh_token, utcnow)
        at == FindProviderById(PROVIDERS, payload.val.payload.provider_id)
        provider == PROVIDERS[at]
    IN  IF body.refresh_token = NoToken
        THEN unchanged(AuthFailure("refresh", "Refresh token required", "INVALID_REQUEST", 400))
        ELSE IF payload.exc
        THEN unchanged(AuthFailure("refresh", "Invalid or expired refresh token",
                                   "INVALID_REFRESH_TOKEN", 401))
        ELSE IF at = 0
        THEN unchanged(AuthFailure("refresh", "Provider not found", "PROVIDER_NOT_FOUND", 404))
        ELSE IF ~provider.is_active \/ provider.verification_status # "verified"
        THEN unchanged(AuthFailure("refresh", "Account not verified or inactive",
                                   "ACCOUNT_NOT_VERIFIED", 403))
        ELSE LET remember_me == (payload.val.exp - payload.val.iat) > ACCESS_TOKEN_EXPIRES
                 access_exp == IF remember_me THEN ACCESS_TOKEN_EXPIRES
                               ELSE ACCESS_TOKEN_EXPIRES
                 refresh_exp == IF remember_me THEN REFRESH_TOKEN_EXPIRES
                                ELSE REFRESH_TOKEN_EXPIRES
                 new_access_token == create_jwt_token(ProviderPayload(provider),
                                                      access_exp, utcnow)
                 new_refresh_token == create_jwt_token(ProviderPayload(provider),
                                                       refresh_exp, utcnow)
             IN  [tokens |-> issued_tokens \cup {new_refresh_token},
                  response |-> [op |-> "refresh", success |-> TRUE,
                                message |-> "Token refreshed successfully",
                                status_code |-> 200,
                                data |-> [access_token |-> new_access_token,
                                          refresh_token |-> new_refresh_token,
                                          expires_in |-> access_exp,
                                          token_type |-> "Bearer"]]]

refresh_token(body) ==
    LET out == RefreshOutcome(body)
    IN  /\ issued_tokens' = out.tokens
        /\ response' = out.response
        /\ args' = [fn |-> "refresh_token", body |-> body]
        /\ UNCHANGED <<PROVIDER_AVAILABILITY, APPOINTMENT_SLOTS, uuid_counter, utcnow, ret,
                       tasks, PATIENTS, PROVIDERS>>

\* the logout endpoint: a stub that answers and touches nothing
logout_ep(body) ==
    /\ response' = [op |-> "logout", success |-> TRUE, message |-> "Logged out (stub)"]
    /\ args' = [fn |-> "logout_ep", body |-> body]
    /\ UNCHANGED <<PROVIDER_AVAILABILITY, APPOINTMENT_SLOTS, uuid_counter, utcnow, ret, tasks,
                   accountVars>>

\* time passes between requests, a quarter of an hour at a time
TickMinutes == 15

MaxTicks == 3

MaxLogins == 2

\* logins of provider-123 with the right and a wrong password, of an unknown
\* email and without password
LoginBodies ==
    {[email |-> "john.smith@healthcare.com", password |-> SeedPassword],
     [email |-> "john.smith@healthcare.com", password |-> "WrongPassword123!"],
     [email |-> "nobody@healthcare.com", password |-> SeedPassword],
     [email |-> "john.smith@healthcare.com", password |-> ""]}

\* a token signed with another key
ForgedToken ==
    [create_jwt_token(ProviderPayload(SeedProviders[1]), REFRESH_TOKEN_EXPIRES, 0)
        EXCEPT !.key = "guess"]

InitAuth ==
    /\ PROVIDER_AVAILABILITY = <<SeedAvailability>>
    /\ APPOINTMENT_SLOTS = SeedSlots
    /\ response = [op |-> "none"]
    /\ uuid_counter = 1
    /\ utcnow = 0
    /\ args = NoCall
    /\ ret = NoCall
    /\ tasks = NoTasks
    /\ PATIENTS = SeedPatients
    /\ PROVIDERS = SeedProviders
    /\ issued_tokens = {}

LoginProvider == \E body \in LoginBodies :
    /\ \A i \in 1..Len(PROVIDERS) :
          PROVIDERS[i].email = body.email => PROVIDERS[i].login_count < MaxLogins
    /\ login_provider(body)

RefreshToken == \E t \in issued_tokens \cup {ForgedToken, NoToken} :
    refresh_token([refresh_token |-> t])

Logout == \E t \in issued_tokens : logout_ep([refresh_token |-> t])

Tick ==
    /\ utcnow < MaxTicks * TickMinutes
    /\ utcnow' = utcnow + TickMinutes
    /\ UNCHANGED <<PROVIDER_AVAILABILITY, APPOINTMENT_SLOTS, response, uuid_counter, args, ret,
                   tasks, accountVars>>

NextAuth == LoginProvider \/ RefreshToken \/ Logout \/ Tick

SpecAuth == InitAuth /\ [][NextAuth]_vars

(***************************************************************************)
(* Properties of the pure components (checked under SpecFn)                *)
(***************************************************************************)
\* elapsed minutes between the window's start and end instants
WindowLength(availability) ==
    convert_to_utc(availability.end_time, availability.date, availability.timezone).val
    - convert_to_utc(availability.start_time, availability.date, availability.timezone).val

\* C4: a window that ends after it starts, whose length is an exact multiple
\* of slot_duration and whose break_duration is 0, yields exactly
\* length / slot_duration slots.
C4_SlotCount ==
    (/\ ret.fn = "generate_slots_from_availability"
     /\ ~ret.result.exc
     /\ args.availability.break_duration = 0
     /\ WindowLength(args.availability) > 0
     /\ WindowLength(args.availability) % args.availability.slot_duration = 0)
    => Len(ret.result.val)
         = WindowLength(args.availability) \div args.availability.slot_duration

\* 09:00-11:00 New York with 30-minute slots and no break: four slots
C4_Witness ==
    /\ ret.fn = "generate_slots_from_availability"
    /\ args.availability.start_time = strftime_HM(9, 0)
    /\ args.availability.end_time = strftime_HM(11, 0)
    /\ args.availability.timezone = "America/New_York"
    /\ args.availability.slot_duration = 30
    /\ args.availability.break_duration = 0
    /\ ~ret.result.exc
    /\ Len(ret.result.val) = 4

\* the dates a recurrence from d to e falls on, by pattern
OccurrenceDates(pattern, d, e) ==
    CASE pattern = "daily" -> d..e
      [] pattern = "weekly" -> {x \in d..e : (x - d) % 7 = 0}
      [] pattern = "monthly" -> {x \in d..e : DayOfMonth(x) = DayOfMonth(d)}

\* C5: for end date e > d and a pattern in {daily, weekly, monthly}, the
\* expander returns one (window, slots) pair for each occurrence date in
\* d..e, in increasing date order; each window is the request with that date
\* and an id of its own, and its slots belong to it.
C5_Occurrences ==
    (/\ ret.fn = "generate_recurring_slots"
     /\ args.availability.recurrence_pattern \in {"daily", "weekly", "monthly"}
     /\ args.availability.recurrence_end_date > args.availability.date
     /\ args.availability.timezone \in KnownZones)
    => /\ ~ret.result.exc
       /\ LET out == ret.result.val
              expected == OccurrenceDates(args.availability.recurrence_pattern,
                                          args.availability.date,
                                          args.availability.recurrence_end_date)
          IN  /\ Len(out) = Cardinality(expected)
              /\ {out[i].availability.date : i \in 1..Len(out)} = expected
              /\ \A i \in 1..Len(out), j \in 1..Len(out) :
                    i < j => /\ out[i].availability.date < out[j].availability.date
                             /\ out[i].availability.id # out[j].availability.id
              /\ \A i \in 1..Len(out) :
                    /\ \A f \in DOMAIN args.availability \ {"date"} :
                          out[i].availability[f] = args.availability[f]
                    /\ \A k \in 1..Len(out[i].slots) :
                          /\ out[i].slots[k].availability_id = out[i].availability.id
                          /\ out[i].slots[k].slot_start_time
                                >= convert_to_utc(args.availability.start_time,
                                                  out[i].availability.date,
                                                  args.availability.timezone).val
                          /\ out[i].slots[k].slot_end_time
                                <= convert_to_utc(args.availability.end_time,
                                                  out[i].availability.date,
                                                  args.availability.timezone).val

\* weekly from 2024-02-15 to 2024-03-01: 02-15, 02-22, 02-29
C5_Witness ==
    /\ ret.fn = "generate_recurring_slots"
    /\ args.availability.recurrence_pattern = "weekly"
    /\ args.availability.date = SeedDate
    /\ args.availability.recurrence_end_date = 60
    /\ ~ret.result.exc
    /\ [i \in 1..Len(ret.result.val) |-> ret.result.val[i].availability.date]
          = <<45, 52, 59>>
    /\ \A i \in 1..3 : Len(ret.result.val[i].slots) = 2

\* C6: the conflict check answers true exactly when some stored slot of the
\* provider, other than the excluded one and whatever its status, has
\* start < slot end and end > slot start; touching at an endpoint is no
\* conflict.
C6_ConflictIff ==
    ret.fn = "check_slot_conflicts_store"
    => (ret.result
        <=> \E i \in 1..Len(args.store) :
               /\ args.store[i].provider_id = args.provider_id
               /\ args.store[i].id # args.exclude_slot_id
               /\ args.start_time < args.store[i].slot_end_time
               /\ args.end_time > args.store[i].slot_start_time)

\* the only slot in the way is a cancelled one, the other overlapping slot
\* being the excluded one
C6_Witness ==
    /\ ret.fn = "check_slot_conflicts_store"
    /\ ret.result
    /\ Len(args.store) = 2
    /\ args.exclude_slot_id = "slot-1"
    /\ args.start_time = 1 /\ args.end_time = 3
    /\ \A i \in 1..2 : args.store[i].provider_id = args.provider_id
    /\ args.store[1].slot_start_time = 0
    /\ args.store[2].slot_start_time = 2
    /\ args.store[2].status = "cancelled"

\* C7: candidate A conflicts with stored B exactly when candidate B
\* conflicts with stored A.
C7_Symmetric ==
    ret.fn = "check_slot_conflicts" => ret.a_on_b = ret.b_on_a

C7_Witness ==
    /\ ret.fn = "check_slot_conflicts"
    /\ args.a = <<0, 2>>
    /\ args.b = <<1, 3>>
    /\ ret.a_on_b
    /\ ret.b_on_a

\* the wall time t on date d does not exist in zone tz (spring-forward gap)
InDstGap(t, d, tz) ==
    /\ tz = "America/New_York"
    /\ ~ParseTime(t).exc
    /\ LET local == d * MinutesPerDay + ParseTime(t).val.hour * 60 + ParseTime(t).val.minute
       IN  DstGapStartLocal <= local /\ local < DstGapEndLocal

\* C8: for every time string the create pattern accepts, every date and
\* every zone in which that wall time is not in a clock change,
\* fromUtc(toUtc(t, d, tz), tz) is t.
C8_RoundTrip ==
    (ret.fn = "round_trip" /\ ~InDstGap(args.t, args.d, args.tz))
    => (~ret.local.exc /\ ret.local.val = args.t)

(***************************************************************************)
(* Properties of the service over the store (checked under Spec)           *)
(***************************************************************************)
Overlap(s1, s2) ==
    s1.slot_start_time < s2.slot_end_time /\ s2.slot_start_time < s1.slot_end_time

PassesTimeChecks(availability) ==
    /\ StrLess(availability.start_time, availability.end_time)
    /\ ~convert_to_utc(availability.start_time, availability.date, availability.timezone).exc
    /\ ~convert_to_utc(availability.end_time, availability.date, availability.timezone).exc

\* the request's window, in UTC, intersects a stored slot of its provider
WindowOverlapsOwnSlot(availability) ==
    \E i \in 1..Len(APPOINTMENT_SLOTS) :
        /\ APPOINTMENT_SLOTS[i].provider_id = availability.provider_id
        /\ convert_to_utc(availability.start_time, availability.date, availability.timezone).val
              < APPOINTMENT_SLOTS[i].slot_end_time
        /\ convert_to_utc(availability.end_time, availability.date, availability.timezone).val
              > APPOINTMENT_SLOTS[i].slot_start_time

\* C2: a non-recurring Create (past the time checks) whose window overlaps a
\* stored slot of the same provider fails with status 409 and stores
\* nothing; one that overlaps no slot of its own provider, whatever other
\* providers hold, is not rejected.
C2_ConflictRejected ==
    [][\A availability \in CreateRequests :
          (/\ response'.op = "create"
           /\ ~availability.is_recurring
           /\ PassesTimeChecks(availability)
           /\ create_provider_availability(availability))
          => IF WindowOverlapsOwnSlot(availability)
             THEN /\ response'.success = FALSE
                  /\ response'.status_code = 409
                  /\ PROVIDER_AVAILABILITY' = PROVIDER_AVAILABILITY
                  /\ APPOINTMENT_SLOTS' = APPOINTMENT_SLOTS
             ELSE response'.success = TRUE]_vars

\* a create was just refused for conflict while another provider's slot
\* lies over a slot of provider-123
C2_Witness ==
    /\ response.op = "create"
    /\ response.success = FALSE
    /\ response.status_code = 409
    /\ \E i \in 1..Len(APPOINTMENT_SLOTS), j \in 1..Len(APPOINTMENT_SLOTS) :
          /\ APPOINTMENT_SLOTS[i].provider_id = "provider-123"
          /\ APPOINTMENT_SLOTS[j].provider_id = "provider-456"
          /\ Overlap(APPOINTMENT_SLOTS[i], APPOINTMENT_SLOTS[j])

\* C3: DeleteSlot on a booked slot fails with "Cannot delete booked slot",
\* with or without the cascade flag, and leaves both stores as they were.
C3_BookedNotDeleted ==
    [][\A slot_id \in SlotIds, delete_recurring \in BOOLEAN :
          (/\ response'.op = "delete"
           /\ \E i \in 1..Len(APPOINTMENT_SLOTS) :
                 /\ APPOINTMENT_SLOTS[i].id = slot_id
                 /\ APPOINTMENT_SLOTS[i].status = "booked"
           /\ delete_availability_slot(slot_id, delete_recurring))
          => /\ response'.success = FALSE
             /\ response'.status_code = 400
             /\ response'.message = "Cannot delete booked slot"
             /\ APPOINTMENT_SLOTS' = APPOINTMENT_SLOTS
             /\ PROVIDER_AVAILABILITY' = PROVIDER_AVAILABILITY]_vars

\* a delete was just refused while a booked slot and an unbooked sibling of
\* the same availability are stored
C3_Witness ==
    /\ response.op = "delete"
    /\ response.success = FALSE
    /\ response.message = "Cannot delete booked slot"
    /\ \E i \in 1..Len(APPOINTMENT_SLOTS), j \in 1..Len(APPOINTMENT_SLOTS) :
          /\ APPOINTMENT_SLOTS[i].status = "booked"
          /\ APPOINTMENT_SLOTS[j].status # "booked"
          /\ APPOINTMENT_SLOTS[i].availability_id = APPOINTMENT_SLOTS[j].availability_id

\* the slots a search response lists
ReturnedSlotIds(resp) ==
    UNION {{resp.data.results[i].available_slots[k].slot_id :
               k \in 1..Len(resp.data.results[i].available_slots)} :
           i \in 1..Len(resp.data.results)}

\* the base fee given when the slot's availability window was created
\* (0 when the window has no pricing)
WindowBaseFee(slot) ==
    LET ws == {i \in 1..Len(PROVIDER_AVAILABILITY) :
                  PROVIDER_AVAILABILITY[i].id = slot.availability_id}
    IN  IF ws = {} THEN 0
        ELSE LET w == PROVIDER_AVAILABILITY[CHOOSE i \in ws : TRUE]
             IN  IF w.pricing = NoneDict THEN 0 ELSE w.pricing.base_fee

\* C9: a Search with available_only and max_price = m returns no slot whose
\* status is not "available" and no slot whose window was created with a
\* base fee above m.
C9_SearchFilters ==
    [][\A search_request \in SearchRequests :
          (/\ response'.op = "search"
           /\ search_request.available_only
           /\ TruthyNum(search_request.max_price)
           /\ search_availability_slots(search_request)
           /\ response'.success)
          => \A i \in 1..Len(APPOINTMENT_SLOTS) :
                APPOINTMENT_SLOTS[i].id \in ReturnedSlotIds(response')
                => /\ APPOINTMENT_SLOTS[i].status = "available"
                   /\ WindowBaseFee(APPOINTMENT_SLOTS[i]) <= search_request.max_price]_vars

\* C10: a successful Create reports as slots_created the number of slots it
\* added to the store and as total_appointments_available that number times
\* the request's max_appointments_per_slot, over all occurrences.
C10_CreateTotals ==
    [][\A availability \in CreateRequests :
          (/\ response'.op = "create"
           /\ response'.success
           /\ create_provider_availability(availability))
          => /\ response'.data.slots_created
                  = Len(APPOINTMENT_SLOTS') - Len(APPOINTMENT_SLOTS)
             /\ response'.data.total_appointments_available
                  = response'.data.slots_created * availability.max_appointments_per_slot
             /\ SubSeq(APPOINTMENT_SLOTS', 1, Len(APPOINTMENT_SLOTS)) = APPOINTMENT_SLOTS]_vars

\* a recurring create of two occurrences, one slot each, two appointments
\* per slot, has just succeeded
C10_Witness ==
    /\ response.op = "create"
    /\ response.success
    /\ response.data.availability_id = "multiple"
    /\ response.data.slots_created = 2
    /\ response.data.total_appointments_available = 4

(***************************************************************************)
(* UpdateSlot                                                              *)
(***************************************************************************)
PatchFields == {"start_time", "end_time", "status", "notes", "pricing", "special_requirements"}

\* is the field given in the patch: a time, a status, a fee or a non-empty
\* note or list (an empty note or list counts as not given, as None does)
Present(updates, k) ==
    CASE k \in {"start_time", "end_time", "special_requirements"} -> updates[k] # NoneSeq
      [] k \in {"status", "notes"} -> updates[k] # None /\ updates[k] # ""
      [] k = "pricing" -> updates[k] # NoneDict

StoredSlot(slot_id) ==
    APPOINTMENT_SLOTS[CHOOSE i \in 1..Len(APPOINTMENT_SLOTS) : APPOINTMENT_SLOTS[i].id = slot_id]

\* the instant a patch puts a slot edge at: the patch's time of day on the
\* slot's UTC day, or the stored edge by its UTC time of day on that day
PatchedInstant(slot, patch_time, stored) ==
    LET day == slot.slot_start_time \div MinutesPerDay
    IN  IF patch_time # NoneSeq
        THEN day * MinutesPerDay + IntOfDigits(SubSeq(patch_time, 1, Len(patch_time) - 3), 0) * 60
                                 + IntOfDigits(SubSeq(patch_time, Len(patch_time) - 1, Len(patch_time)), 0)
        ELSE day * MinutesPerDay + (stored % MinutesPerDay)

\* another stored slot of the same provider overlaps the patched interval
PatchOverlapsOther(slot_id, updates) ==
    LET slot == StoredSlot(slot_id)
        s == PatchedInstant(slot, updates.start_time, slot.slot_start_time)
        e == PatchedInstant(slot, updates.end_time, slot.slot_end_time)
    IN  \E i \in 1..Len(APPOINTMENT_SLOTS) :
           /\ APPOINTMENT_SLOTS[i].id # slot_id
           /\ APPOINTMENT_SLOTS[i].provider_id = slot.provider_id
           /\ s < APPOINTMENT_SLOTS[i].slot_end_time
           /\ e > APPOINTMENT_SLOTS[i].slot_start_time

\* C11: an UpdateSlot of a stored slot whose patch carries a start or an end
\* time fails with 409 exactly when the patched interval overlaps another
\* stored slot of the same provider, the slot itself never counting, and a
\* 409 leaves the slot store and the window store as they were
C11_UpdateConflict ==
    [][\A slot_id \in StoredSlotIds, updates \in UpdatePatches :
          (/\ response'.op = "update"
           /\ Present(updates, "start_time") \/ Present(updates, "end_time")
           /\ update_availability_slot(slot_id, updates))
          => /\ PatchOverlapsOther(slot_id, updates)
                  <=> (~response'.success /\ response'.status_code = 409)
             /\ ~response'.success
                  => /\ APPOINTMENT_SLOTS' = APPOINTMENT_SLOTS
                     /\ PROVIDER_AVAILABILITY' = PROVIDER_AVAILABILITY
             /\ ~PatchOverlapsOther(slot_id, updates) => response'.success]_vars

\* an update has just failed with 409 while slot-123 carries the times of a
\* patch that kept its own interval, stored by an earlier update
C11_Witness ==
    /\ response.op = "update"
    /\ ~response.success
    /\ response.status_code = 409
    /\ \E i \in 1..Len(APPOINTMENT_SLOTS) :
          /\ APPOINTMENT_SLOTS[i].id = "slot-123"
          /\ "start_time" \in DOMAIN APPOINTMENT_SLOTS[i]
          /\ APPOINTMENT_SLOTS[i].start_time
                = convert_from_utc(APPOINTMENT_SLOTS[i].slot_start_time, "UTC").val

C13_CascadeDelete ==
    [][\A slot_id \in StoredSlotIds :
          (/\ response'.op = "delete"
           /\ StoredSlot(slot_id).status # "booked"
           /\ delete_availability_slot(slot_id, TRUE))
          => /\ response'.success
             /\ APPOINTMENT_SLOTS'
                  = SelectSeq(APPOINTMENT_SLOTS,
                       LAMBDA s : /\ s.id # slot_id
                                  /\ \/ s.availability_id # StoredSlot(slot_id).availability_id
                                     \/ s.status = "booked")
             /\ PROVIDER_AVAILABILITY' = PROVIDER_AVAILABILITY]_vars

\* a delete has just succeeded; of the seed availability only a booked slot
\* is left, and slots of another availability are still stored
C13_Witness ==
    /\ response.op = "delete"
    /\ response.success
    /\ \E i \in 1..Len(APPOINTMENT_SLOTS) :
          /\ APPOINTMENT_SLOTS[i].availability_id = "availability-123"
          /\ APPOINTMENT_SLOTS[i].status = "booked"
    /\ \A i \in 1..Len(APPOINTMENT_SLOTS) :
          APPOINTMENT_SLOTS[i].availability_id = "availability-123"
             => APPOINTMENT_SLOTS[i].status = "booked"
    /\ \E i \in 1..Len(APPOINTMENT_SLOTS) :
          APPOINTMENT_SLOTS[i].availability_id # "availability-123"

\* C14: UpdateSlot and DeleteSlot with an id no stored slot has fail with
\* "Slot not found" and status 404 and change neither store
C14_NotFound ==
    [][/\ \A slot_id \in SlotIds \ StoredSlotIds, updates \in UpdatePatches :
             (response'.op = "update" /\ update_availability_slot(slot_id, updates))
             => /\ ~response'.success
                /\ response'.status_code = 404
                /\ APPOINTMENT_SLOTS' = APPOINTMENT_SLOTS
                /\ PROVIDER_AVAILABILITY' = PROVIDER_AVAILABILITY
       /\ \A slot_id \in SlotIds \ StoredSlotIds, delete_recurring \in BOOLEAN :
             (response'.op = "delete" /\ delete_availability_slot(slot_id, delete_recurring))
             => /\ ~response'.success
                /\ response'.status_code = 404
                /\ APPOINTMENT_SLOTS' = APPOINTMENT_SLOTS
                /\ PROVIDER_AVAILABILITY' = PROVIDER_AVAILABILITY]_vars

\* a delete of an unknown id has just been answered with 404 after an
\* earlier delete had removed a seed slot
C14_Witness ==
    /\ response.op = "delete"
    /\ ~response.success
    /\ response.status_code = 404
    /\ Len(APPOINTMENT_SLOTS) = 1
    /\ Len(PROVIDER_AVAILABILITY) = 1

(***************************************************************************)
(* Create: recurring requests and failures                                 *)
(***************************************************************************)
\* a recurring request the service can expand: its end time compares after
\* its start time, pattern and end date are given, its zone is known
ExpandableRecurring(availability) ==
    /\ availability.is_recurring
    /\ PassesTimeChecks(availability)
    /\ availability.recurrence_pattern \in {"daily", "weekly", "monthly"}
    /\ availability.recurrence_end_date # NoneNum

\* the windows and the slots a create has appended
AppendedWindows == SubSeq(PROVIDER_AVAILABILITY', Len(PROVIDER_AVAILABILITY) + 1,
                          Len(PROVIDER_AVAILABILITY'))

AppendedSlots == SubSeq(APPOINTMENT_SLOTS', Len(APPOINTMENT_SLOTS) + 1, Len(APPOINTMENT_SLOTS'))

C17_FailedCreateStoresNothing ==
    [][\A availability \in CreateRequests :
          (/\ response'.op = "create"
           /\ ~response'.success
           /\ create_provider_availability(availability))
          => /\ PROVIDER_AVAILABILITY' = PROVIDER_AVAILABILITY
             /\ APPOINTMENT_SLOTS' = APPOINTMENT_SLOTS]_vars

\* a create has just failed with 409 on a store that earlier creates had
\* added windows and slots to
C17_Witness ==
    /\ response.op = "create"
    /\ ~response.success
    /\ response.status_code = 409
    /\ Len(PROVIDER_AVAILABILITY) > 1
    /\ Len(APPOINTMENT_SLOTS) > 2

(***************************************************************************)
(* Booked slots                                                            *)
(***************************************************************************)
ServiceOps == {"create", "update", "delete", "list", "search"}

StaysBooked(slot) ==
    \E j \in 1..Len(APPOINTMENT_SLOTS') :
       /\ APPOINTMENT_SLOTS'[j].id = slot.id
       /\ APPOINTMENT_SLOTS'[j].status = "booked"

\* C18 as stated: once a stored slot is booked, no Create, UpdateSlot,
\* DeleteSlot, List or Search changes its status or removes it
C18_BookedForever ==
    [][\A i \in 1..Len(APPOINTMENT_SLOTS) :
          (/\ response'.op \in ServiceOps
           /\ APPOINTMENT_SLOTS[i].status = "booked")
          => StaysBooked(APPOINTMENT_SLOTS[i])]_vars

\* C18 amended: a booked slot stays stored and booked through every service
\* operation except a successful UpdateSlot of that slot whose patch carries
\* another status
C18_BookedUntilPatched ==
    [][\A i \in 1..Len(APPOINTMENT_SLOTS) :
          (/\ response'.op \in ServiceOps
           /\ APPOINTMENT_SLOTS[i].status = "booked")
          => \/ StaysBooked(APPOINTMENT_SLOTS[i])
             \/ /\ response'.op = "update"
                /\ response'.success
                /\ \E updates \in UpdatePatches :
                      /\ Present(updates, "status")
                      /\ updates.status # "booked"
                      /\ update_availability_slot(APPOINTMENT_SLOTS[i].id, updates)]_vars

\* the second of two updates of one seed slot, both status patches, has just
\* succeeded and left the slot cancelled
C18_Witness ==
    /\ response.op = "update"
    /\ response.success
    /\ uuid_counter = 1
    /\ utcnow = 3
    /\ \E i \in 1..Len(APPOINTMENT_SLOTS) :
          /\ APPOINTMENT_SLOTS[i].status = "cancelled"
          /\ APPOINTMENT_SLOTS[i].updated_at = 2
          /\ "start_time" \notin DOMAIN APPOINTMENT_SLOTS[i]
    /\ \A i \in 1..Len(APPOINTMENT_SLOTS) : APPOINTMENT_SLOTS[i].updated_at # 1

(***************************************************************************)
(* List                                                                    *)
(***************************************************************************)
\* the stored slots a List request asks for: of the provider, with the date
\* of their UTC start in [start_date, end_date], of the status and the type
\* asked for when one is
ListMatches(r) ==
    {i \in 1..Len(APPOINTMENT_SLOTS) :
        LET slot == APPOINTMENT_SLOTS[i]
        IN  /\ slot.provider_id = r.provider_id
            /\ slot.slot_start_time >= r.start_date * MinutesPerDay
            /\ slot.slot_start_time < (r.end_date + 1) * MinutesPerDay
            /\ r.status # None => slot.status = r.status
            /\ r.appointment_type # None => slot.appointment_type = r.appointment_type}

\* the (group, position) pairs of the slots a List response returns
ListedPositions(resp) ==
    UNION {{<<n, k>> : k \in 1..Len(resp.data.availability[n].slots)} :
              n \in 1..Len(resp.data.availability)}

ListedId(resp, pos) == resp.data.availability[pos[1]].slots[pos[2]].slot_id

DisplayZone(r) == IF r.timezone = None THEN "America/New_York" ELSE r.timezone

LocalDate(instant, tz) == (instant + utc_offset(tz, instant)) \div MinutesPerDay

\* C20: every slot a List returns stands under the calendar date its UTC
\* start has in the display timezone, the date of the local start time
\* rendered for it
C20_GroupDateIsLocal ==
    [][\A r \in ListRequests :
          (/\ response'.op = "list"
           /\ response'.success
           /\ get_provider_availability_slots(r.provider_id, r.start_date, r.end_date,
                                              r.status, r.appointment_type, r.timezone))
          => \A pos \in ListedPositions(response') :
                response'.data.availability[pos[1]].date
                   = LocalDate(StoredSlot(ListedId(response', pos)).slot_start_time,
                               DisplayZone(r))]_vars

(***************************************************************************)
(* Concurrent creates (checked under SpecConc)                             *)
(***************************************************************************)
TaskStart(t) ==
    convert_to_utc(tasks[t].availability.start_time, tasks[t].availability.date,
                   tasks[t].availability.timezone).val

TaskEnd(t) ==
    convert_to_utc(tasks[t].availability.end_time, tasks[t].availability.date,
                   tasks[t].availability.timezone).val

Committed(t) == tasks[t].pc = "done" /\ tasks[t].response.success

\* the stored slots a committed call has created
TaskSlots(t) ==
    {APPOINTMENT_SLOTS[i] : i \in {j \in 1..Len(APPOINTMENT_SLOTS) :
        APPOINTMENT_SLOTS[j].availability_id = tasks[t].response.data.availability_id}}

WindowMeetsSlotsOf(t, u) ==
    \E sl \in TaskSlots(u) : TaskStart(t) < sl.slot_end_time /\ TaskEnd(t) > sl.slot_start_time

\* C16 as stated: while one non-recurring create stands between its conflict
\* check and its commit, a concurrent create of the same provider with an
\* overlapping interval that the store does not yet contradict can run its
\* own conflict check, so that both pass and both commit
C16_BothCanPass ==
    \A t \in TaskIds, u \in TaskIds :
       (/\ t # u
        /\ tasks[t].pc = "checked"
        /\ tasks[u].pc = "pending"
        /\ tasks[t].availability.provider_id = tasks[u].availability.provider_id
        /\ TaskStart(t) < TaskEnd(u) /\ TaskStart(u) < TaskEnd(t)
        /\ CheckPhase(tasks[u].availability).passed)
       => ENABLED TaskCheck(u)

\* C16 amended: concurrent non-recurring creates run one after the other; no
\* two calls stand between check and commit together, the slots two
\* committed calls of one provider have stored never overlap, and two calls
\* whose windows each meet the other's slots never both commit
C16_CreatesSerialized ==
    \A t \in TaskIds, u \in TaskIds :
       t # u =>
          /\ ~(tasks[t].pc = "checked" /\ tasks[u].pc = "checked")
          /\ (/\ Committed(t) /\ Committed(u)
              /\ tasks[t].availability.provider_id = tasks[u].availability.provider_id)
             => /\ \A a \in TaskSlots(t), b \in TaskSlots(u) : ~Overlap(a, b)
                /\ ~(WindowMeetsSlotsOf(t, u) /\ WindowMeetsSlotsOf(u, t))

\* two calls of one provider with overlapping windows have both returned:
\* one has committed, the other, which the seed store alone would have let
\* pass, was answered 409
C16_Witness ==
    \E t \in TaskIds, u \in TaskIds :
       /\ t # u
       /\ Committed(t)
       /\ tasks[u].pc = "done"
       /\ ~tasks[u].response.success
       /\ tasks[u].response.status_code = 409
       /\ tasks[t].availability.provider_id = tasks[u].availability.provider_id
       /\ TaskStart(t) < TaskEnd(u) /\ TaskStart(u) < TaskEnd(t)
       /\ ~check_slot_conflicts(SeedSlots, tasks[u].availability.provider_id,
                                TaskStart(u), TaskEnd(u), None)

(***************************************************************************)
(* Ownership of slots                                                      *)
(***************************************************************************)
\* the positions of the stored availability windows with the given id
WindowsWithId(availability_id) ==
    {j \in 1..Len(PROVIDER_AVAILABILITY) : PROVIDER_AVAILABILITY[j].id = availability_id}

\* C21: in every reachable state every stored slot's availability id is the
\* id of exactly one stored availability window, and that window's provider
\* id is the slot's provider id
C21_SlotOwned ==
    \A i \in 1..Len(APPOINTMENT_SLOTS) :
        /\ Cardinality(WindowsWithId(APPOINTMENT_SLOTS[i].availability_id)) = 1
        /\ \A j \in WindowsWithId(APPOINTMENT_SLOTS[i].availability_id) :
              PROVIDER_AVAILABILITY[j].provider_id = APPOINTMENT_SLOTS[i].provider_id

\* creates have stored windows of both providers next to the seed window,
\* each with slots of its own, and a delete has removed one of the seed slots
C21_Witness ==
    /\ \E i, k \in 1..Len(APPOINTMENT_SLOTS) :
          /\ APPOINTMENT_SLOTS[i].provider_id = "provider-456"
          /\ APPOINTMENT_SLOTS[k].provider_id = "provider-123"
          /\ APPOINTMENT_SLOTS[k].availability_id # "availability-123"
    /\ Len(PROVIDER_AVAILABILITY) >= 3
    /\ Cardinality({i \in 1..Len(APPOINTMENT_SLOTS) :
                       APPOINTMENT_SLOTS[i].availability_id = "availability-123"}) = 1

(***************************************************************************)
(* Freshly stored slots                                                    *)
(***************************************************************************)
\* C22: every slot a Create appends to the store is "available", has no
\* patient id and no booking reference, and carries the provider id and the
\* appointment type of the appended window it was generated from
C22_FreshSlots ==
    [][\A availability \in CreateRequests :
          (/\ response'.op = "create"
           /\ create_provider_availability(availability))
          => \A k \in 1..Len(AppendedSlots) :
                /\ AppendedSlots[k].status = "available"
                /\ AppendedSlots[k].patient_id = None
                /\ AppendedSlots[k].booking_reference = None
                /\ \E n \in 1..Len(AppendedWindows) :
                      /\ AppendedWindows[n].id = AppendedSlots[k].availability_id
                      /\ AppendedWindows[n].provider_id = AppendedSlots[k].provider_id
                      /\ AppendedWindows[n].appointment_type
                           = AppendedSlots[k].appointment_type]_vars

\* a create has just stored a blocked telemedicine window of provider-456;
\* its slots are the last of the store
C22_Witness ==
    /\ response.op = "create"
    /\ response.success
    /\ Len(PROVIDER_AVAILABILITY) >= 1
    /\ PROVIDER_AVAILABILITY[Len(PROVIDER_AVAILABILITY)].status = "blocked"
    /\ PROVIDER_AVAILABILITY[Len(PROVIDER_AVAILABILITY)].appointment_type = "telemedicine"
    /\ Len(APPOINTMENT_SLOTS) >= 1
    /\ APPOINTMENT_SLOTS[Len(APPOINTMENT_SLOTS)].availability_id
         = PROVIDER_AVAILABILITY[Len(PROVIDER_AVAILABILITY)].id
    /\ APPOINTMENT_SLOTS[Len(APPOINTMENT_SLOTS)].appointment_type = "telemedicine"

(***************************************************************************)
(* Patient accounts (checked under SpecPatient)                            *)
(***************************************************************************)
\* no two stored patients share an email or a phone number
PatientsUnique ==
    \A i, j \in 1..Len(PATIENTS) :
        i # j => /\ PATIENTS[i].email # PATIENTS[j].email
                 /\ PATIENTS[i].phone_number # PATIENTS[j].phone_number

\* C23: a registration whose email or phone number equals that of a stored
\* patient is rejected with a validation error (422, the field reported) and
\* stores nothing; hence no two stored patients ever share an email or a
\* phone number
C23_NoDuplicates ==
    /\ []PatientsUnique
    /\ [][\A patient \in RegisterRequests :
             (/\ response'.op = "register"
              /\ register_patient(patient)
              /\ \E i \in 1..Len(PATIENTS) :
                    \/ PATIENTS[i].email = patient.email
                    \/ PATIENTS[i].phone_number = patient.phone_number)
             => /\ ~response'.success
                /\ response'.message = "Validation failed"
                /\ response'.status_code = 422
                /\ (\E i \in 1..Len(PATIENTS) : PATIENTS[i].email = patient.email)
                      => response'.errors.email = "Email is already registered"
                /\ (\E i \in 1..Len(PATIENTS) :
                       PATIENTS[i].phone_number = patient.phone_number)
                      => response'.errors.phone_number = "Phone number is already registered"
                /\ PATIENTS' = PATIENTS]_vars

\* a registration with a fresh email has just been rejected because its
\* phone number is the one an earlier registration has stored
C23_Witness ==
    /\ response.op = "register"
    /\ ~response.success
    /\ response.errors.email = None
    /\ response.errors.phone_number = "Phone number is already registered"
    /\ Len(PATIENTS) = 3
    /\ args.fn = "register_patient"
    /\ args.patient.phone_number = PATIENTS[3].phone_number

\* the email is well formed and the password is not blank, so the login gets
\* past validate_patient_login
PassesLoginValidation(login_data) ==
    NoErrors(validate_patient_login(strip(login_data.email), login_data.password))

\* no stored patient has the email
UnknownEmail(login_data) == FindPatient(PATIENTS, strip(login_data.email)) = 0

\* the email is that of an active patient and the password is not theirs
ActiveWrongPassword(login_data) ==
    LET at == FindPatient(PATIENTS, strip(login_data.email))
    IN  /\ at # 0
        /\ PATIENTS[at].is_active
        /\ ~verify_password(login_data.password, PATIENTS[at].password_hash)

\* C25: in every reachable store, login_patient answers a well-formed email
\* of no patient exactly as it answers the email of an active patient with a
\* wrong password: success false, "Invalid email or password", status 401
C25_LoginIndistinguishable ==
    \A a, b \in LoginRequests :
        (/\ PassesLoginValidation(a) /\ UnknownEmail(a)
         /\ PassesLoginValidation(b) /\ ActiveWrongPassword(b))
        => /\ LoginOutcome(a) = LoginOutcome(b)
           /\ LoginOutcome(a) = [op |-> "login", success |-> FALSE,
                                 message |-> "Invalid email or password",
                                 status_code |-> 401]

\* a login with a wrong password has just been refused for a patient who was
\* registered after start-up, in a store where another well-formed email is
\* still unknown
C25_Witness ==
    /\ response.op = "login"
    /\ ~response.success
    /\ response.status_code = 401
    /\ args.fn = "login_patient"
    /\ args.login_data.email = "new.patient@email.com"
    /\ ActiveWrongPassword(args.login_data)
    /\ \E a \in LoginRequests : PassesLoginValidation(a) /\ UnknownEmail(a)

(***************************************************************************)
(* Provider sessions and lockout (checked under SpecAuth)                  *)
(***************************************************************************)
\* C24: a refresh request that directly follows a logout request with the
\* same refresh token does not return new tokens
C24_LogoutInvalidates ==
    [][(/\ args.fn = "logout_ep"
        /\ args'.fn = "refresh_token"
        /\ args'.body.refresh_token = args.body.refresh_token)
       => ~response'.success]_vars

\* the provider a login body names, 0 if none
LoginTarget(body) == FindProviderByEmail(PROVIDERS, body.email)

\* the lock of the provider is in force at the current instant
LockLasts(provider) == provider.locked_until # NoneNum /\ provider.locked_until > utcnow

\* C30: a failed password attempt on an account that is not locked adds one
\* to its failure counter, and the attempt that brings the counter to five
\* locks the account until 30 minutes later; while the lock lasts every
\* login attempt, also with the correct password, is answered ACCOUNT_LOCKED
\* and leaves the counter alone; a successful login sets the counter to 0
\* and clears the lock; nothing else touches the counter or the lock
C30_Lockout ==
    [][/\ \A body \in LoginBodies :
             (/\ login_provider(body)
              /\ body.email # "" /\ body.password # ""
              /\ LoginTarget(body) # 0)
             => LET at == LoginTarget(body)
                    before == PROVIDERS[at]
                    after == PROVIDERS'[at]
                    correct == verify_password(body.password, before.password_hash)
                IN  /\ \A i \in 1..Len(PROVIDERS) : i # at => PROVIDERS'[i] = PROVIDERS[i]
                    /\ LockLasts(before)
                          => /\ response'.error_code = "ACCOUNT_LOCKED"
                             /\ ~response'.success
                             /\ after = before
                    /\ (~LockLasts(before) /\ ~correct)
                          => /\ ~response'.success
                             /\ response'.error_code = "INVALID_CREDENTIALS"
                             /\ after.failed_login_attempts = before.failed_login_attempts + 1
                             /\ after.failed_login_attempts >= 5
                                   => after.locked_until = utcnow + 30
                             /\ after.failed_login_attempts < 5
                                   => after.locked_until = before.locked_until
                    /\ (~LockLasts(before) /\ correct)
                          => /\ response'.success
                             /\ after.failed_login_attempts = 0
                             /\ after.locked_until = NoneNum
       /\ (\A body \in LoginBodies : ~login_provider(body)) => PROVIDERS' = PROVIDERS]_vars

\* the account of provider-123 was locked by its fifth failed attempt, a
\* quarter of an hour has passed, and a login with the correct password has
\* just been answered ACCOUNT_LOCKED
C30_Witness ==
    /\ args.fn = "login_provider"
    /\ args.body.password = SeedPassword
    /\ response.op = "provider_login"
    /\ ~response.success
    /\ response.error_code = "ACCOUNT_LOCKED"
    /\ PROVIDERS[1].failed_login_attempts = 5
    /\ PROVIDERS[1].locked_until = 30
    /\ utcnow = 15

(***************************************************************************)
(* Slot layout (checked under SpecFn)                                      *)
(***************************************************************************)
\* C26: for a window of positive length L with slot duration s and break b
\* the Slot Generator returns slots 0..n-1, slot i starting at
\* windowStart + i*(s+b) and lasting s, where n is the largest number with
\* (n-1)*(s+b) + s <= L: no slot ends after the window, no two slots
\* overlap, and one more slot after the last break would not fit
C26_SlotLayout ==
    (/\ ret.fn = "generate_slots_from_availability"
     /\ ~ret.result.exc
     /\ WindowLength(args.availability) > 0)
    => LET slots == ret.result.val
           n == Len(slots)
           s == args.availability.slot_duration
           b == args.availability.break_duration
           L == WindowLength(args.availability)
           windowStart == convert_to_utc(args.availability.start_time, args.availability.date,
                                         args.availability.timezone).val
       IN  /\ \A i \in 1..n :
                 /\ slots[i].slot_start_time = windowStart + (i - 1) * (s + b)
                 /\ slots[i].slot_end_time = slots[i].slot_start_time + s
                 /\ slots[i].slot_end_time <= windowStart + L
           /\ \A i, j \in 1..n : i < j => slots[i].slot_end_time <= slots[j].slot_start_time
           /\ n > 0 => (n - 1) * (s + b) + s <= L
           /\ n * (s + b) + s > L

\* 09:00-11:00 New York with 45-minute slots and 10-minute breaks: two slots,
\* the second 55 minutes after the first, and 20 minutes left over
C26_Witness ==
    /\ ret.fn = "generate_slots_from_availability"
    /\ args.availability.start_time = strftime_HM(9, 0)
    /\ args.availability.end_time = strftime_HM(11, 0)
    /\ args.availability.timezone = "America/New_York"
    /\ args.availability.slot_duration = 45
    /\ args.availability.break_duration = 10
    /\ ~ret.result.exc
    /\ Len(ret.result.val) = 2
    /\ ret.result.val[2].slot_start_time = ret.result.val[1].slot_start_time + 55

(***************************************************************************)
(* Validation of recurring requests (checked under SpecFn)                 *)
(***************************************************************************)
\* C27: a create request with is_recurring = true whose other fields are in
\* order is accepted exactly when a recurrence pattern and a recurrence end
\* date are both given and the end date is after the start date
C27_RecurringAccepted ==
    (/\ ret.fn = "ProviderAvailabilityCreate"
     /\ args.data.is_recurring
     /\ StrLess(args.data.start_time, args.data.end_time)
     /\ args.data.slot_duration >= 15
     /\ args.data.recurrence_pattern \in RecurrencePattern \cup {None})
    => ((ret.result = {})
          <=> /\ args.data.recurrence_pattern \in RecurrencePattern
              /\ args.data.recurrence_end_date # NoneNum
              /\ args.data.recurrence_end_date > args.data.date)

(***************************************************************************)
(* Frame of UpdateSlot and DeleteSlot (checked under Spec)                 *)
(***************************************************************************)
\* the instants that are an edge of some stored slot, before or after a step
SlotEdges ==
    {APPOINTMENT_SLOTS[i].slot_start_time : i \in 1..Len(APPOINTMENT_SLOTS)}
    \cup {APPOINTMENT_SLOTS[i].slot_end_time : i \in 1..Len(APPOINTMENT_SLOTS)}

\* C28: a successful UpdateSlot leaves every slot's id, provider id,
\* availability id and stored UTC start and end instants as they were, also
\* when the patch carries a start or an end time; the Conflict Checker
\* therefore answers every question about the store as it did before
C28_UpdateKeepsInterval ==
    [][\A slot_id \in StoredSlotIds, updates \in UpdatePatches :
          (/\ response'.op = "update"
           /\ response'.success
           /\ update_availability_slot(slot_id, updates))
          => /\ Len(APPOINTMENT_SLOTS') = Len(APPOINTMENT_SLOTS)
             /\ \A i \in 1..Len(APPOINTMENT_SLOTS) :
                   /\ APPOINTMENT_SLOTS'[i].id = APPOINTMENT_SLOTS[i].id
                   /\ APPOINTMENT_SLOTS'[i].provider_id = APPOINTMENT_SLOTS[i].provider_id
                   /\ APPOINTMENT_SLOTS'[i].availability_id
                        = APPOINTMENT_SLOTS[i].availability_id
                   /\ APPOINTMENT_SLOTS'[i].slot_start_time
                        = APPOINTMENT_SLOTS[i].slot_start_time
                   /\ APPOINTMENT_SLOTS'[i].slot_end_time = APPOINTMENT_SLOTS[i].slot_end_time
             /\ \A p \in ProviderIds, s \in SlotEdges, e \in SlotEdges :
                   s < e => check_slot_conflicts(APPOINTMENT_SLOTS', p, s, e, None)
                              = check_slot_conflicts(APPOINTMENT_SLOTS, p, s, e, None)]_vars

\* an update with a new start time has just succeeded: slot-124 carries the
\* patched "14:00" and still starts at 14:30 UTC
C28_Witness ==
    /\ response.op = "update"
    /\ response.success
    /\ \E i \in 1..Len(APPOINTMENT_SLOTS) :
          /\ APPOINTMENT_SLOTS[i].id = "slot-124"
          /\ "start_time" \in DOMAIN APPOINTMENT_SLOTS[i]
          /\ APPOINTMENT_SLOTS[i].start_time = strftime_HM(14, 0)
          /\ APPOINTMENT_SLOTS[i].slot_start_time = SeedDate * MinutesPerDay + 14 * 60 + 30
          /\ APPOINTMENT_SLOTS[i].updated_at = utcnow - 1

\* C29: a successful delete without the cascade flag removes exactly the
\* target slot: the store loses one slot, the one with the given id, the other
\* slots keep their place and content, and the availability windows are not
\* touched, whether or not the window keeps another slot
C29_DeleteExactlyOne ==
    [][\A slot_id \in SlotIds :
          (/\ delete_availability_slot(slot_id, FALSE)
           /\ response'.success)
          => /\ Len(APPOINTMENT_SLOTS') = Len(APPOINTMENT_SLOTS) - 1
             /\ APPOINTMENT_SLOTS'
                  = SelectSeq(APPOINTMENT_SLOTS, LAMBDA s : s.id # slot_id)
             /\ PROVIDER_AVAILABILITY' = PROVIDER_AVAILABILITY]_vars

\* a delete has just succeeded on a store that never grew: one of the two
\* seeded slots of availability-123 is gone, its sibling is still stored and
\* available (a cascade would have taken it), and the window is still there
C29_Witness ==
    /\ response.op = "delete"
    /\ response.success
    /\ uuid_counter = 1
    /\ Len(APPOINTMENT_SLOTS) = 1
    /\ APPOINTMENT_SLOTS[1].id = "slot-124"
    /\ APPOINTMENT_SLOTS[1].status = "available"
    /\ \E i \in 1..Len(PROVIDER_AVAILABILITY) :
          PROVIDER_AVAILABILITY[i].id = APPOINTMENT_SLOTS[1].availability_id

====
